---- MODULE Spec2Model ----
(***************************************************************************)
(* Model of the private-zone reconciliation engine of the Volcengine       *)
(* ExternalDNS webhook provider: Provider.ApplyChanges / Provider.Records  *)
(* on top of PrivateZoneWrapper and the remote private-zone record store.  *)
(* Every remote call is one step; the remote may answer each call with     *)
(* success, a transport error, or a response carrying a soft error.        *)
(***************************************************************************)
EXTENDS Integers, Sequences, FiniteSets, TLC

(***************************************************************************)
(* Bounds of the model.                                                    *)
(***************************************************************************)
\* number of provider invocations (ApplyChanges / Records) in one behaviour
MaxOps == 2
\* number of changes (creates, deletes, updates) in one plan.Changes
MaxChanges == 2
\* longest item list handed to BatchForEach on its own
MaxItems == 5
\* largest batch size handed to BatchForEach on its own
MaxBatch == 3
\* largest total a query function reports to QueryAll on its own
MaxTotal == 4
\* largest page size handed to QueryAll on its own
MaxPageSize == 3
\* longest list of records or record IDs handed to a batch wrapper
MaxRecords == 201
\* times the two concurrent invocations hand the processor to each other
MaxSwitches == 2

(***************************************************************************)
(* Program constants.                                                      *)
(***************************************************************************)
defaultPageSize == 100
defaultBatchSize == 100
nullHostPrivateZone == "@"

(***************************************************************************)
(* Go string functions, on TLC strings.                                    *)
(***************************************************************************)
HasPrefix(s, p) == Len(s) >= Len(p) /\ SubSeq(s, 1, Len(p)) = p

HasSuffix(s, p) == Len(s) >= Len(p) /\ SubSeq(s, Len(s) - Len(p) + 1, Len(s)) = p

TrimSuffix(s, p) == IF HasSuffix(s, p) THEN SubSeq(s, 1, Len(s) - Len(p)) ELSE s

\* strings.ReplaceAll(s, c, "") for a one-character c
RECURSIVE RemoveAll(_, _)
RemoveAll(s, c) ==
    IF Len(s) = 0 THEN ""
    ELSE IF SubSeq(s, 1, 1) = c THEN RemoveAll(SubSeq(s, 2, Len(s)), c)
    ELSE SubSeq(s, 1, 1) \o RemoveAll(SubSeq(s, 2, Len(s)), c)

Digits == <<"0", "1", "2", "3", "4", "5", "6", "7", "8", "9">>

\* strconv.FormatInt(n, 10), n >= 0
RECURSIVE FormatInt(_)
FormatInt(n) ==
    IF n < 10 THEN Digits[n + 1]
    ELSE FormatInt(n \div 10) \o Digits[(n % 10) + 1]

DigitValue(c) == CHOOSE d \in 0..9 : Digits[d + 1] = c

IsDigit(c) == \E d \in 0..9 : Digits[d + 1] = c

\* strconv.ParseInt(s, 10, 64) for unsigned decimal strings: [err, val]
RECURSIVE ParseDigits(_, _)
ParseDigits(s, acc) ==
    IF Len(s) = 0 THEN acc
    ELSE ParseDigits(SubSeq(s, 2, Len(s)), acc * 10 + DigitValue(SubSeq(s, 1, 1)))

ParseInt(s) ==
    IF Len(s) > 0 /\ \A i \in 1..Len(s) : IsDigit(SubSeq(s, i, i))
    THEN [err |-> FALSE, val |-> ParseDigits(s, 0)]
    ELSE [err |-> TRUE, val |-> 0]

(***************************************************************************)
(* Value normalizer (utils).                                               *)
(***************************************************************************)
\* as escapeTXTRecordValue, taking one pair of enclosing quotes off a quoted value
escapeTXTRecordValue_Unquote(value) ==
    IF HasPrefix(value, "\"") /\ HasSuffix(value, "\"") /\ Len(value) >= 2
    THEN SubSeq(value, 2, Len(value) - 1)
    ELSE value

escapeTXTRecordValue(value) ==
    IF HasPrefix(value, "\"heritage=") THEN RemoveAll(value, "\"") ELSE value

unescapeTXTRecordValue(value) ==
    IF HasPrefix(value, "heritage=") THEN "\"" \o value \o "\"" ELSE value

\* as getDNSName, without the case of the apex host
getDNSName_NoApex(host, domain) == host \o "." \o domain

getDNSName(host, domain) ==
    IF host = nullHostPrivateZone THEN domain ELSE host \o "." \o domain

\* as splitDNSName, with the empty host of the zone's own name left empty
splitDNSName_EmptyApex(dnsName, zoneName) ==
    LET name == TrimSuffix(dnsName, ".")
    IN  [host |-> IF HasSuffix(name, "." \o zoneName)
                  THEN SubSeq(name, 1, Len(name) - Len(zoneName) - 1)
                  ELSE "",
         domain |-> IF HasSuffix(name, "." \o zoneName) \/ name = zoneName
                    THEN zoneName
                    ELSE ""]

\* as splitDNSName, with the zone name matched as a suffix on any boundary
splitDNSName_NoBoundary(dnsName, zoneName) ==
    LET name == TrimSuffix(dnsName, ".")
        h == IF HasSuffix(name, zoneName) /\ name # zoneName
             THEN SubSeq(name, 1, Len(name) - Len(zoneName) - 1)
             ELSE ""
        d == IF HasSuffix(name, zoneName) THEN zoneName ELSE ""
    IN  [host |-> IF h = "" THEN nullHostPrivateZone ELSE h, domain |-> d]

\* as splitDNSName, with the host cut one character late
splitDNSName_KeepsDot(dnsName, zoneName) ==
    LET name == TrimSuffix(dnsName, ".")
        h == IF HasSuffix(name, "." \o zoneName)
             THEN SubSeq(name, 1, Len(name) - Len(zoneName))
             ELSE ""
        d == IF HasSuffix(name, "." \o zoneName) \/ name = zoneName
             THEN zoneName
             ELSE ""
    IN  [host |-> IF h = "" THEN nullHostPrivateZone ELSE h, domain |-> d]

splitDNSName(dnsName, zoneName) ==
    LET name == TrimSuffix(dnsName, ".")
        h == IF HasSuffix(name, "." \o zoneName)
             THEN SubSeq(name, 1, Len(name) - Len(zoneName) - 1)
             ELSE ""
        d == IF HasSuffix(name, "." \o zoneName) \/ name = zoneName
             THEN zoneName
             ELSE ""
    IN  [host |-> IF h = "" THEN nullHostPrivateZone ELSE h, domain |-> d]

cleanCNAMEValue(value) == TrimSuffix(value, ".")

\* as completeCNAMEValue, with the dot appended to every value
completeCNAMEValue_Always(value) == value \o "."

completeCNAMEValue(value) == IF ~HasSuffix(value, ".") THEN value \o "." ELSE value

\* normalizeDomain is called by DeletePrivateZoneRecord; its body is the
\* dot-stripping of CNAME values the specification describes.
normalizeDomain(value) == TrimSuffix(value, ".")

(***************************************************************************)
(* Generic helpers (utils).                                                *)
(***************************************************************************)
Min(a, b) == IF a < b THEN a ELSE b

\* the slice items[i:end] BatchForEach hands to f when the first
\* unprocessed item is the head of items
FirstBatch(items, batchSize) == SubSeq(items, 1, Min(batchSize, Len(items)))

RestBatch(items, batchSize) == SubSeq(items, Min(batchSize, Len(items)) + 1, Len(items))

\* the result f has for a slice when it succeeds: every item doubled
ApplyResult(slice) == [i \in 1..Len(slice) |-> slice[i] * 2]

\* as BatchLoop, with a last slice shorter than batchSize left out
RECURSIVE BatchLoop_DropsShortTail(_, _, _, _, _)
BatchLoop_DropsShortTail(rest, batchSize, all, applied, failAt) ==
    IF Len(rest) < batchSize THEN [err |-> FALSE, all |-> all, applied |-> applied]
    ELSE IF Len(applied) + 1 = failAt
         THEN [err |-> TRUE, all |-> <<>>,
               applied |-> Append(applied, FirstBatch(rest, batchSize))]
         ELSE BatchLoop_DropsShortTail(RestBatch(rest, batchSize), batchSize,
                                       all \o ApplyResult(FirstBatch(rest, batchSize)),
                                       Append(applied, FirstBatch(rest, batchSize)), failAt)

\* as BatchLoop, with a failed slice skipped and the later slices applied
RECURSIVE BatchLoop_SkipsFailure(_, _, _, _, _)
BatchLoop_SkipsFailure(rest, batchSize, all, applied, failAt) ==
    IF Len(rest) = 0 THEN [err |-> FALSE, all |-> all, applied |-> applied]
    ELSE BatchLoop_SkipsFailure(RestBatch(rest, batchSize), batchSize,
                                IF Len(applied) + 1 = failAt THEN all
                                ELSE all \o ApplyResult(FirstBatch(rest, batchSize)),
                                Append(applied, FirstBatch(rest, batchSize)), failAt)

\* the loop of BatchForEach over the unprocessed items rest, with f failing on
\* its call number failAt (0: on none); applied is the slices f was called with
RECURSIVE BatchLoop(_, _, _, _, _)
BatchLoop(rest, batchSize, all, applied, failAt) ==
    IF Len(rest) = 0 THEN [err |-> FALSE, all |-> all, applied |-> applied]
    ELSE IF Len(applied) + 1 = failAt
         THEN [err |-> TRUE, all |-> <<>>,
               applied |-> Append(applied, FirstBatch(rest, batchSize))]
         ELSE BatchLoop(RestBatch(rest, batchSize), batchSize,
                        all \o ApplyResult(FirstBatch(rest, batchSize)),
                        Append(applied, FirstBatch(rest, batchSize)), failAt)

\* as BatchForEach, with an empty result and no error for a batch size of 0 or less
BatchForEach_NilOnBadSize(items, batchSize, failAt) ==
    IF batchSize <= 0 THEN [err |-> FALSE, all |-> <<>>, applied |-> <<>>]
    ELSE BatchLoop(items, batchSize, <<>>, <<>>, failAt)

\* BatchForEach(items, batchSize, f): [err, all, applied]
BatchForEach(items, batchSize, failAt) ==
    IF batchSize <= 0 THEN [err |-> TRUE, all |-> <<>>, applied |-> <<>>]
    ELSE BatchLoop(items, batchSize, <<>>, <<>>, failAt)

\* as QueryLoop, with the data of the last page left out
RECURSIVE QueryLoop_LastPageLost(_, _, _, _)
QueryLoop_LastPageLost(pageSize, pageNum, all, query) ==
    LET r == query[pageNum]
        req == <<[pageNum |-> pageNum, pageSize |-> pageSize]>>
    IN  IF r.err THEN [err |-> TRUE, all |-> <<>>, pages |-> pageNum, reqs |-> req]
        ELSE IF pageNum * pageSize >= r.total
             THEN [err |-> FALSE, all |-> all, pages |-> pageNum, reqs |-> req]
             ELSE LET more == QueryLoop_LastPageLost(pageSize, pageNum + 1, all \o r.data, query)
                  IN  [more EXCEPT !.reqs = req \o @]

\* as QueryLoop, stopping only when pageNum * pageSize is above the total
RECURSIVE QueryLoop_StopsLate(_, _, _, _)
QueryLoop_StopsLate(pageSize, pageNum, all, query) ==
    LET r == query[pageNum]
        req == <<[pageNum |-> pageNum, pageSize |-> pageSize]>>
    IN  IF r.err THEN [err |-> TRUE, all |-> <<>>, pages |-> pageNum, reqs |-> req]
        ELSE IF pageNum * pageSize > r.total
             THEN [err |-> FALSE, all |-> all \o r.data, pages |-> pageNum, reqs |-> req]
             ELSE LET more == QueryLoop_StopsLate(pageSize, pageNum + 1, all \o r.data, query)
                  IN  [more EXCEPT !.reqs = req \o @]

\* as QueryLoop, with a failed page ending the listing without an error
RECURSIVE QueryLoop_Truncates(_, _, _, _)
QueryLoop_Truncates(pageSize, pageNum, all, query) ==
    LET r == query[pageNum]
        req == <<[pageNum |-> pageNum, pageSize |-> pageSize]>>
    IN  IF r.err THEN [err |-> FALSE, all |-> all, pages |-> pageNum, reqs |-> req]
        ELSE IF pageNum * pageSize >= r.total
             THEN [err |-> FALSE, all |-> all \o r.data, pages |-> pageNum, reqs |-> req]
             ELSE LET more == QueryLoop_Truncates(pageSize, pageNum + 1, all \o r.data, query)
                  IN  [more EXCEPT !.reqs = req \o @]

\* QueryAll(pageSize, query), with query a function pageNum -> [err, data, total];
\* returns [err, all, pages, reqs] (pages = number of query calls made,
\* reqs = the (pageNum, pageSize) arguments of the calls)
RECURSIVE QueryLoop(_, _, _, _)
QueryLoop(pageSize, pageNum, all, query) ==
    LET r == query[pageNum]
        req == <<[pageNum |-> pageNum, pageSize |-> pageSize]>>
    IN  IF r.err THEN [err |-> TRUE, all |-> <<>>, pages |-> pageNum, reqs |-> req]
        ELSE IF pageNum * pageSize >= r.total
             THEN [err |-> FALSE, all |-> all \o r.data, pages |-> pageNum, reqs |-> req]
             ELSE LET more == QueryLoop(pageSize, pageNum + 1, all \o r.data, query)
                  IN  [more EXCEPT !.reqs = req \o @]

QueryAll(pageSize, query) ==
    IF pageSize <= 0 THEN [err |-> TRUE, all |-> <<>>, pages |-> 0, reqs |-> <<>>]
    ELSE QueryLoop(pageSize, 1, <<>>, query)

\* all orders in which Go may iterate over the keys S of a map
Perms(S) ==
    {q \in [1..Cardinality(S) -> S] : \A i, j \in 1..Cardinality(S) : i # j => q[i] # q[j]}

RECURSIVE Flatten(_)
Flatten(ss) == IF Len(ss) = 0 THEN <<>> ELSE Head(ss) \o Flatten(Tail(ss))

\* the seq [f(s[1]), ..., f(s[n])]
MapSeq(s, f(_)) == [i \in 1..Len(s) |-> f(s[i])]

Range(s) == {s[i] : i \in 1..Len(s)}

(***************************************************************************)
(* Remote responses.  A call is answered "ok", fails in transport (err #   *)
(* nil), or returns a response whose Metadata.Error is set ("soft").       *)
(***************************************************************************)
Resp == {"ok", "transport", "soft"}

\* as Failed, without the test of the error in the response metadata
Failed_TransportOnly(resp) == resp = "transport"

\* the wrapper's test  err != nil || resp.Metadata.Error != nil
Failed(resp) == resp = "transport" \/ resp = "soft"

(***************************************************************************)
(* Endpoints handed to the provider, and the zones bound to the VPC.       *)
(***************************************************************************)
EP(name, type, targets, ttl) ==
    [DNSName |-> name, RecordType |-> type, Targets |-> targets, RecordTTL |-> ttl]

\* the sets of endpoints a caller derives its plans from: one host with two
\* target sets and TTLs; names of zone 1, of the nested zone 2 and of no
\* zone; an ownership TXT at the apex, quoted and unquoted; a CNAME without
\* and with the trailing dot; two ownership TXT values passed without quotes
EndpointFamilies ==
    { { EP("www.example.com", "A", <<"1.1.1.1", "1.1.1.2">>, 300),
        EP("www.example.com", "A", <<"1.1.1.3">>, 60) },
      { EP("www.example.com", "A", <<"1.2.3.4">>, 300),
        EP("a.b.example.com", "A", <<"1.2.3.4">>, 300),
        EP("x.other.org", "A", <<"1.2.3.4">>, 300) },
      { EP("example.com", "TXT", <<"\"heritage=x\"">>, 0),
        EP("example.com", "TXT", <<"heritage=x">>, 0) },
      { EP("c.example.com", "CNAME", <<"t.io">>, 300),
        EP("c.example.com", "CNAME", <<"t.io.">>, 300) },
      { EP("t.example.com", "TXT", <<"heritage=x">>, 0),
        EP("t.example.com", "TXT", <<"heritage=y">>, 0) } }

InitZones ==
    << [ZID |-> 1, ZoneName |-> "example.com"],
       [ZID |-> 2, ZoneName |-> "b.example.com"] >>

SeqsUpTo(S, n) == UNION {[1..k -> S] : k \in 0..n}

\* the (old, new) pairs of an update: both describe the same name and type
UpdatePairs(E) ==
    {p \in E \X E : p[1].DNSName = p[2].DNSName /\ p[1].RecordType = p[2].RecordType}

\* plan.Changes values of at most MaxChanges changes over the endpoints E;
\* an update is one change and fills UpdateOld and UpdateNew at the same index
ChangeSets(E) ==
    {[Create |-> x[1], Delete |-> x[2],
      UpdateOld |-> [i \in 1..Len(x[3]) |-> x[3][i][1]],
      UpdateNew |-> [i \in 1..Len(x[3]) |-> x[3][i][2]]] :
        x \in {y \in SeqsUpTo(E, MaxChanges) \X SeqsUpTo(E, MaxChanges)
                        \X SeqsUpTo(UpdatePairs(E), MaxChanges) :
                    Len(y[1]) + Len(y[2]) + Len(y[3]) <= MaxChanges}}

NoChanges == [Create |-> <<>>, UpdateNew |-> <<>>, Delete |-> <<>>, UpdateOld |-> <<>>]

(***************************************************************************)
(* State.                                                                  *)
(***************************************************************************)
VARIABLES
    managed,      \* caller: the endpoints its plans are made of
    zones,        \* remote: the zones bound to the VPC, in listing order
    store,        \* remote: ZID -> the zone's records, in listing order
    nextID,       \* remote: next record ID to assign
    origin,       \* ghost: RecordID -> the endpoint name and target it was created from
    pc,           \* position of the invocation in progress, "done" when it has
                  \* returned, "idle" when the caller has taken the result
    op,           \* the invocation in progress or done
    changes,      \* argument of ApplyChanges
    zoneMap,      \* zoneNameIDMapper: zone ID string -> zone name
    delQueue,     \* deletePrivateZoneRecords: the (zone, endpoint) pairs not yet deleted
    recordIDs,    \* batchDeletePrivateZoneRecord: resolved IDs not yet sent
    createQueue,  \* createPrivateZoneRecords: the (zid, records) not yet sent
    recZones,     \* ListRecordsByVPC: the zones not yet read
    endpoints,    \* ListRecordsByVPC: the endpoints built so far / returned
    calls,        \* remote calls issued by the invocation, in order
    result,       \* "none" while running, then "ok" or "err"
    ops,          \* number of invocations started
    util,         \* a call of a utility function on its own: arguments, then outcome
    conc          \* a second invocation, set aside while this one takes its steps

\* no utility function is under call
NoUtil == [fn |-> "none", phase |-> "none", in |-> <<>>, out |-> <<>>]

\* no second invocation has started
NoConc ==
    [parked |-> [pc |-> "idle", op |-> "none", changes |-> NoChanges, zoneMap |-> <<>>,
                 delQueue |-> <<>>, recordIDs |-> <<>>, createQueue |-> <<>>,
                 recZones |-> <<>>, endpoints |-> <<>>, calls |-> <<>>, result |-> "none"],
     switches |-> 0,
     overlapped |-> FALSE]

vars == <<managed, zones, store, nextID, origin, pc, op, changes, zoneMap, delQueue,
          recordIDs, createQueue, recZones, endpoints, calls, result, ops, util, conc>>

ZIDs == {zones[i].ZID : i \in 1..Len(zones)}

Call(api, zid, arg, resp) == [api |-> api, zid |-> zid, arg |-> arg, resp |-> resp]

(***************************************************************************)
(* The remote store, behind privateZoneClient.                             *)
(***************************************************************************)
\* one page of a listing, as the remote answers ListRecords / ListPrivateZones
RemotePage(listing, pageNum, pageSize, resp) ==
    IF resp = "transport" \/ resp = "soft"
    THEN [err |-> Failed(resp), data |-> <<>>, total |-> 0]
    ELSE [err |-> FALSE,
          data |-> SubSeq(listing, (pageNum - 1) * pageSize + 1, Min(pageNum * pageSize, Len(listing))),
          total |-> Len(listing)]

\* the pages a complete listing takes
NumPages(listing, pageSize) ==
    IF Len(listing) = 0 THEN 1 ELSE (Len(listing) + pageSize - 1) \div pageSize

\* the query function of a listing in which page failPage is answered resp
RemoteQuery(listing, pageSize, failPage, resp) ==
    [p \in 1..NumPages(listing, pageSize) |->
        RemotePage(listing, p, pageSize, IF p = failPage THEN resp ELSE "ok")]

\* the remote keeps (host, type, value) unique within a zone
Duplicates(zid, recs) ==
    \/ \E i \in 1..Len(recs) : \E j \in 1..Len(store[zid]) :
          /\ recs[i].Host = store[zid][j].Host
          /\ recs[i].Type = store[zid][j].Type
          /\ recs[i].Value = store[zid][j].Value
    \/ \E i, j \in 1..Len(recs) :
          /\ i < j
          /\ recs[i].Host = recs[j].Host
          /\ recs[i].Type = recs[j].Type
          /\ recs[i].Value = recs[j].Value

\* the zone's records after the remote has stored recs
RemoteAppend(zid, recs) ==
    store[zid] \o [i \in 1..Len(recs) |->
        [Host |-> recs[i].Host, Type |-> recs[i].Type, Value |-> recs[i].Value,
         TTL |-> recs[i].TTL, RecordID |-> nextID + i - 1]]

RemoteRemove(zid, ids) ==
    SelectSeq(store[zid], LAMBDA r : r.RecordID \notin Range(ids))

(***************************************************************************)
(* Zone directory.                                                         *)
(***************************************************************************)
\* zoneNameIDMapper built from the listed zones
ZoneMapOf(vpcZones) ==
    [z \in {FormatInt(vpcZones[i].ZID) : i \in 1..Len(vpcZones)} |->
        LET i == CHOOSE i \in 1..Len(vpcZones) :
                    /\ FormatInt(vpcZones[i].ZID) = z
                    /\ \A j \in (i + 1)..Len(vpcZones) : FormatInt(vpcZones[j].ZID) # z
        IN  vpcZones[i].ZoneName]

\* provider.ZoneIDName.FindZone: the matching zone with the longest name
ZoneMatches(zm, hostname) ==
    {z \in DOMAIN zm : hostname = zm[z] \/ HasSuffix(hostname, "." \o zm[z])}

FindZone(zm, hostname) ==
    IF ZoneMatches(zm, hostname) = {} THEN [zone |-> "", zoneName |-> ""]
    ELSE LET z == CHOOSE z \in ZoneMatches(zm, hostname) :
                      \A y \in ZoneMatches(zm, hostname) : Len(zm[y]) <= Len(zm[z])
         IN  [zone |-> z, zoneName |-> zm[z]]

\* as separateCreateChange, with every matching zone taking the endpoint
separateCreateChange_EveryMatch(zm, eps) ==
    [zid \in DOMAIN zm |-> SelectSeq(eps, LAMBDA ep : zid \in ZoneMatches(zm, ep.DNSName))]

\* separateCreateChange: zone ID string -> the endpoints it owns, in input order
separateCreateChange(zm, eps) ==
    [zid \in DOMAIN zm |-> SelectSeq(eps, LAMBDA ep : FindZone(zm, ep.DNSName).zone = zid)]

(***************************************************************************)
(* Write path: createPrivateZoneRecords.                                   *)
(***************************************************************************)
\* as EndpointRecords, with the dot completed on CNAME targets
EndpointRecords_CompletesCNAME(ep, zoneName) ==
    LET sp == splitDNSName(ep.DNSName, zoneName)
        rec(target) ==
            [Host |-> sp.host,
             Type |-> ep.RecordType,
             Value |-> IF ep.RecordType = "TXT" THEN escapeTXTRecordValue(target)
                       ELSE IF ep.RecordType = "CNAME" THEN completeCNAMEValue(target)
                       ELSE target,
             TTL |-> IF ep.RecordTTL > 0 THEN ep.RecordTTL ELSE 0,
             src |-> [DNSName |-> ep.DNSName, RecordType |-> ep.RecordType, Target |-> target]]
    IN  IF sp.domain = "" THEN <<>> ELSE MapSeq(ep.Targets, rec)

\* as EndpointRecords, with the TTL set on the first record only
EndpointRecords_FirstTTL(ep, zoneName) ==
    LET sp == splitDNSName(ep.DNSName, zoneName)
        rec(i) ==
            [Host |-> sp.host,
             Type |-> ep.RecordType,
             Value |-> IF ep.RecordType = "TXT" THEN escapeTXTRecordValue(ep.Targets[i])
                       ELSE ep.Targets[i],
             TTL |-> IF ep.RecordTTL > 0 /\ i = 1 THEN ep.RecordTTL ELSE 0,
             src |-> [DNSName |-> ep.DNSName, RecordType |-> ep.RecordType,
                      Target |-> ep.Targets[i]]]
    IN  IF sp.domain = "" THEN <<>> ELSE [i \in 1..Len(ep.Targets) |-> rec(i)]

\* the RecordForBatchCreateRecordInput entries of one endpoint; TTL 0 is the
\* nil TTL; src is a ghost field naming the endpoint and target of the entry
EndpointRecords(ep, zoneName) ==
    LET sp == splitDNSName(ep.DNSName, zoneName)
        rec(target) ==
            [Host |-> sp.host,
             Type |-> ep.RecordType,
             Value |-> IF ep.RecordType = "TXT" THEN escapeTXTRecordValue(target) ELSE target,
             TTL |-> IF ep.RecordTTL > 0 THEN ep.RecordTTL ELSE 0,
             src |-> [DNSName |-> ep.DNSName, RecordType |-> ep.RecordType, Target |-> target]]
    IN  IF sp.domain = "" THEN <<>> ELSE MapSeq(ep.Targets, rec)

\* recordsMap: zone ID string -> the records to create in the zone
RecordsMap(zm, eps) ==
    [zid \in DOMAIN zm |->
        Flatten(MapSeq(separateCreateChange(zm, eps)[zid],
                       LAMBDA ep : EndpointRecords(ep, zm[zid])))]

\* the batch-create calls createPrivateZoneRecords makes, in each order the
\* iteration over recordsMap may take
CreateQueues(zm, eps) ==
    LET rm == RecordsMap(zm, eps)
        nonEmpty == {zid \in DOMAIN zm : Len(rm[zid]) > 0}
    IN  {[i \in 1..Cardinality(nonEmpty) |->
            [zid |-> ParseInt(q[i]).val, records |-> rm[q[i]]]] : q \in Perms(nonEmpty)}

(***************************************************************************)
(* Write path: deletePrivateZoneRecords.                                   *)
(***************************************************************************)
\* as DeletesByZone, with the endpoints of no zone kept under the key ""
DeletesByZone_KeepsUnowned(zm, eps) ==
    [k \in {zm[z] : z \in DOMAIN zm} \cup
           {FindZone(zm, eps[i].DNSName).zone : i \in 1..Len(eps)} |->
        SelectSeq(eps, LAMBDA ep : FindZone(zm, ep.DNSName).zone = k)]

\* deletesByZone: initialised under the zone names, filled under the zone IDs
DeletesByZone(zm, eps) ==
    [k \in {zm[z] : z \in DOMAIN zm} \cup
           ({FindZone(zm, eps[i].DNSName).zone : i \in 1..Len(eps)} \ {""}) |->
        SelectSeq(eps, LAMBDA ep : FindZone(zm, ep.DNSName).zone = k)]

\* the (zone, endpoint) pairs in each order the iteration over deletesByZone may take
DeleteQueues(zm, eps) ==
    LET dz == DeletesByZone(zm, eps)
        nonEmpty == {k \in DOMAIN dz : Len(dz[k]) > 0}
    IN  {Flatten([i \in 1..Cardinality(nonEmpty) |->
            MapSeq(dz[q[i]], LAMBDA ep : [zone |-> q[i], ep |-> ep])]) : q \in Perms(nonEmpty)}

\* as CompareValue, without the normalization
CompareValue_Raw(record) == record.Value

\* DeletePrivateZoneRecord: the value a stored record is compared under
CompareValue(record) ==
    LET v1 == IF record.Type = "TXT" THEN unescapeTXTRecordValue(record.Value) ELSE record.Value
    IN  IF record.Type = "CNAME" THEN normalizeDomain(v1) ELSE v1

\* as MatchingIDs, without the comparison of the value
MatchingIDs_AnyValue(records, host, recordType, targets) ==
    LET hit == SelectSeq(records, LAMBDA record :
                   host = record.Host /\ recordType = record.Type)
    IN  MapSeq(hit, LAMBDA record : record.RecordID)

\* DeletePrivateZoneRecord: the record IDs resolved from the listed records
MatchingIDs(records, host, recordType, targets) ==
    LET hit == SelectSeq(records, LAMBDA record :
                   /\ host = record.Host
                   /\ recordType = record.Type
                   /\ \E i \in 1..Len(targets) : targets[i] = CompareValue(record))
    IN  MapSeq(hit, LAMBDA record : record.RecordID)

(***************************************************************************)
(* Read path: ListRecordsByVPC.                                            *)
(***************************************************************************)
\* groupPrivateZoneRecords: the keys type:host, and the records under a key
GroupKeys(records) == {records[i].Type \o ":" \o records[i].Host : i \in 1..Len(records)}

Group(records, key) == SelectSeq(records, LAMBDA r : r.Type \o ":" \o r.Host = key)

\* endpoint.NewEndpointWithTTL: trailing dots are trimmed from the name and
\* from the targets of every record type but TXT
NewEndpointWithTTL(dnsName, recordType, ttl, targets) ==
    EP(TrimSuffix(dnsName, "."), recordType,
       MapSeq(targets, LAMBDA t : IF recordType = "TXT" THEN t ELSE TrimSuffix(t, ".")),
       ttl)

\* as GroupEndpoint, with the TTL of the group's last record
GroupEndpoint_LastTTL(recordList, zoneName) ==
    NewEndpointWithTTL(getDNSName(recordList[1].Host, zoneName), recordList[1].Type,
                       recordList[Len(recordList)].TTL, MapSeq(recordList, LAMBDA r : r.Value))

\* the endpoint of one group of a zone's records
GroupEndpoint(recordList, zoneName) ==
    NewEndpointWithTTL(getDNSName(recordList[1].Host, zoneName), recordList[1].Type,
                       recordList[1].TTL, MapSeq(recordList, LAMBDA r : r.Value))

\* the endpoints of a zone, in each order the iteration over the groups may take
ZoneEndpoints(records, zoneName) ==
    {[i \in 1..Cardinality(GroupKeys(records)) |->
        GroupEndpoint(Group(records, q[i]), zoneName)] : q \in Perms(GroupKeys(records))}

(***************************************************************************)
(* Listing through QueryAll: GetPrivateZoneRecords, ListPrivateZones.      *)
(***************************************************************************)
\* the outcome of QueryAll over a listing in which page failPage is answered resp
ListAll(listing, failPage, resp) ==
    QueryAll(defaultPageSize, RemoteQuery(listing, defaultPageSize, failPage, resp))

\* the remote calls that listing made
ListCalls(api, zid, pages, failPage, resp) ==
    [i \in 1..pages |-> Call(api, zid, i, IF i = failPage THEN resp ELSE "ok")]

ZoneRecords(zid) == IF zid \in DOMAIN store THEN store[zid] ELSE <<>>

(***************************************************************************)
(* Initial state: the zones exist and hold no record.                      *)
(***************************************************************************)
Init ==
    /\ managed \in EndpointFamilies
    /\ zones = InitZones
    /\ store = [z \in {InitZones[i].ZID : i \in 1..Len(InitZones)} |-> <<>>]
    /\ nextID = 1
    /\ origin = <<>>
    /\ pc = "idle"
    /\ op = "none"
    /\ changes = NoChanges
    /\ zoneMap = <<>>
    /\ delQueue = <<>>
    /\ recordIDs = <<>>
    /\ createQueue = <<>>
    /\ recZones = <<>>
    /\ endpoints = <<>>
    /\ calls = <<>>
    /\ result = "none"
    /\ ops = 0
    /\ util = NoUtil
    /\ conc = NoConc

(***************************************************************************)
(* Control flow of applyChangesForPrivateZone between remote calls.        *)
(***************************************************************************)
\* applyChangesForPrivateZone: the endpoints to create and to delete
toCreate(c) == c.Create \o c.UpdateNew

toDelete(c) == c.Delete \o c.UpdateOld

\* the invocation returns res
Finish(res) ==
    /\ pc' = "done"
    /\ result' = res
    /\ delQueue' = <<>>
    /\ recordIDs' = <<>>
    /\ createQueue' = <<>>
    /\ recZones' = <<>>

\* applyChangesForPrivateZone from `if len(toCreate) > 0` on
BeginCreates(zm, c) ==
    IF Len(toCreate(c)) = 0 THEN Finish("ok")
    ELSE IF \E zid \in DOMAIN zm : ParseInt(zid).err THEN Finish("err")
    ELSE \E q \in CreateQueues(zm, toCreate(c)) :
            IF Len(q) = 0 THEN Finish("ok")
            ELSE /\ pc' = "apply_create"
                 /\ result' = "none"
                 /\ createQueue' = q
                 /\ delQueue' = <<>>
                 /\ recordIDs' = <<>>
                 /\ recZones' = <<>>

\* deletePrivateZoneRecords with the pairs q left to delete
NextDelete(zm, c, q) ==
    IF Len(q) = 0 THEN BeginCreates(zm, c)
    ELSE IF ParseInt(q[1].zone).err THEN Finish("err")
    ELSE /\ pc' = "apply_delete_list"
         /\ result' = "none"
         /\ delQueue' = q
         /\ recordIDs' = <<>>
         /\ createQueue' = <<>>
         /\ recZones' = <<>>

\* as BeginDeletes, without the UpdateOld endpoints
BeginDeletes_NoUpdateOld(zm, c) ==
    IF Len(c.Delete) = 0 THEN BeginCreates(zm, c)
    ELSE \E q \in DeleteQueues(zm, c.Delete) : NextDelete(zm, c, q)

\* applyChangesForPrivateZone from `if len(toDelete) > 0` on
BeginDeletes(zm, c) ==
    IF Len(toDelete(c)) = 0 THEN BeginCreates(zm, c)
    ELSE \E q \in DeleteQueues(zm, toDelete(c)) : NextDelete(zm, c, q)

(***************************************************************************)
(* Provider.ApplyChanges.                                                  *)
(***************************************************************************)
\* ApplyChanges(nil): no-op
ApplyChangesNil ==
    /\ pc = "idle"
    /\ ops < MaxOps
    /\ ops' = ops + 1
    /\ op' = "ApplyChangesNil"
    /\ changes' = NoChanges
    /\ zoneMap' = <<>>
    /\ endpoints' = <<>>
    /\ calls' = <<>>
    /\ Finish("ok")
    /\ UNCHANGED <<util, conc, managed, zones, store, nextID, origin>>

\* as ApplyChanges, with the zone map of the zones first seen in place of
\* the zones just listed
ApplyChanges_CachedZones(c, resp) ==
    /\ pc = "idle"
    /\ ops < MaxOps
    /\ ops' = ops + 1
    /\ op' = "ApplyChanges"
    /\ changes' = c
    /\ endpoints' = <<>>
    /\ \E failPage \in 1..NumPages(zones, defaultPageSize) :
       LET r == ListAll(zones, failPage, resp)
       IN  /\ calls' = ListCalls("ListPrivateZones", 0, r.pages, failPage, resp)
           /\ IF r.err
              THEN zoneMap' = <<>> /\ Finish("err")
              ELSE zoneMap' = ZoneMapOf(InitZones) /\ BeginDeletes(ZoneMapOf(InitZones), c)
    /\ UNCHANGED <<util, conc, managed, zones, store, nextID, origin>>

\* ApplyChanges(c) up to the return of ListPrivateZones and the grouping
\* of the deletes that follows it
ApplyChanges(c, resp) ==
    /\ pc = "idle"
    /\ ops < MaxOps
    /\ ops' = ops + 1
    /\ op' = "ApplyChanges"
    /\ changes' = c
    /\ endpoints' = <<>>
    /\ \E failPage \in 1..NumPages(zones, defaultPageSize) :
       LET r == ListAll(zones, failPage, resp)
       IN  /\ calls' = ListCalls("ListPrivateZones", 0, r.pages, failPage, resp)
           /\ IF r.err
              THEN zoneMap' = <<>> /\ Finish("err")
              ELSE zoneMap' = ZoneMapOf(r.all) /\ BeginDeletes(ZoneMapOf(r.all), c)
    /\ UNCHANGED <<util, conc, managed, zones, store, nextID, origin>>

\* as ApplyDeleteList, with an error returned when no record matches
ApplyDeleteList_NotFoundIsError(resp) ==
    /\ pc = "apply_delete_list"
    /\ \E failPage \in 1..NumPages(ZoneRecords(ParseInt(delQueue[1].zone).val), defaultPageSize) :
       LET item == delQueue[1]
           zid == ParseInt(item.zone).val
           sp == splitDNSName(item.ep.DNSName, zoneMap[item.zone])
           r == ListAll(ZoneRecords(zid), failPage, resp)
           ids == MatchingIDs(r.all, sp.host, item.ep.RecordType, item.ep.Targets)
       IN  /\ calls' = calls \o ListCalls("ListRecords", zid, r.pages, failPage, resp)
           /\ IF r.err \/ Len(ids) = 0 THEN Finish("err")
              ELSE /\ pc' = "apply_delete_batch"
                   /\ recordIDs' = ids
                   /\ UNCHANGED <<result, delQueue, createQueue, recZones>>
    /\ UNCHANGED <<util, conc, managed, zones, store, nextID, origin, op, changes, zoneMap, endpoints, ops>>

\* DeletePrivateZoneRecord: GetPrivateZoneRecords and the resolution of the IDs
ApplyDeleteList(resp) ==
    /\ pc = "apply_delete_list"
    /\ \E failPage \in 1..NumPages(ZoneRecords(ParseInt(delQueue[1].zone).val), defaultPageSize) :
       LET item == delQueue[1]
           zid == ParseInt(item.zone).val
           sp == splitDNSName(item.ep.DNSName, zoneMap[item.zone])
           r == ListAll(ZoneRecords(zid), failPage, resp)
           ids == MatchingIDs(r.all, sp.host, item.ep.RecordType, item.ep.Targets)
       IN  /\ calls' = calls \o ListCalls("ListRecords", zid, r.pages, failPage, resp)
           /\ IF r.err THEN Finish("err")
              ELSE IF Len(ids) = 0 THEN NextDelete(zoneMap, changes, Tail(delQueue))
              ELSE /\ pc' = "apply_delete_batch"
                   /\ recordIDs' = ids
                   /\ UNCHANGED <<result, delQueue, createQueue, recZones>>
    /\ UNCHANGED <<util, conc, managed, zones, store, nextID, origin, op, changes, zoneMap, endpoints, ops>>

\* as ApplyBatchDelete, with a failed call logged and not returned
ApplyBatchDelete_ErrorIgnored(resp) ==
    /\ pc = "apply_delete_batch"
    /\ LET zid == ParseInt(delQueue[1].zone).val
           ids == FirstBatch(recordIDs, defaultBatchSize)
           rest == RestBatch(recordIDs, defaultBatchSize)
       IN  /\ calls' = Append(calls, Call("BatchDeleteRecord", zid, ids, resp))
           /\ IF resp = "ok"
              THEN /\ store' = [store EXCEPT ![zid] = RemoteRemove(zid, ids)]
                   /\ origin' = [id \in DOMAIN origin \ Range(ids) |-> origin[id]]
              ELSE UNCHANGED <<store, origin>>
           /\ IF Len(rest) > 0
              THEN /\ recordIDs' = rest
                   /\ UNCHANGED <<pc, result, delQueue, createQueue, recZones>>
              ELSE NextDelete(zoneMap, changes, Tail(delQueue))
    /\ UNCHANGED <<util, conc, managed, zones, nextID, op, changes, zoneMap, endpoints, ops>>

\* batchDeletePrivateZoneRecord: one BatchDeleteRecord call of BatchForEach
ApplyBatchDelete(resp) ==
    /\ pc = "apply_delete_batch"
    /\ LET zid == ParseInt(delQueue[1].zone).val
           ids == FirstBatch(recordIDs, defaultBatchSize)
           rest == RestBatch(recordIDs, defaultBatchSize)
       IN  /\ calls' = Append(calls, Call("BatchDeleteRecord", zid, ids, resp))
           /\ IF resp = "ok"
              THEN /\ store' = [store EXCEPT ![zid] = RemoteRemove(zid, ids)]
                   /\ origin' = [id \in DOMAIN origin \ Range(ids) |-> origin[id]]
              ELSE UNCHANGED <<store, origin>>
           /\ IF Failed(resp) THEN Finish("err")
              ELSE IF Len(rest) > 0
                   THEN /\ recordIDs' = rest
                        /\ UNCHANGED <<pc, result, delQueue, createQueue, recZones>>
                   ELSE NextDelete(zoneMap, changes, Tail(delQueue))
    /\ UNCHANGED <<util, conc, managed, zones, nextID, op, changes, zoneMap, endpoints, ops>>

\* as ApplyBatchCreate, with a failed call returned as success
ApplyBatchCreate_ErrorSwallowed(resp) ==
    /\ pc = "apply_create"
    /\ LET zid == createQueue[1].zid
           recs == FirstBatch(createQueue[1].records, defaultBatchSize)
           rest == RestBatch(createQueue[1].records, defaultBatchSize)
       IN  /\ resp = "ok" => zid \in DOMAIN store /\ ~Duplicates(zid, recs)
           /\ calls' = Append(calls, Call("BatchCreateRecord", zid, recs, resp))
           /\ IF resp = "ok"
              THEN /\ store' = [store EXCEPT ![zid] = RemoteAppend(zid, recs)]
                   /\ nextID' = nextID + Len(recs)
                   /\ origin' = [id \in DOMAIN origin \cup (nextID..(nextID + Len(recs) - 1)) |->
                                    IF id \in DOMAIN origin THEN origin[id]
                                    ELSE recs[id - nextID + 1].src]
              ELSE UNCHANGED <<store, nextID, origin>>
           /\ IF Failed(resp) THEN Finish("ok")
              ELSE IF Len(rest) > 0
                   THEN /\ createQueue' = <<[zid |-> zid, records |-> rest]>> \o Tail(createQueue)
                        /\ UNCHANGED <<pc, result, delQueue, recordIDs, recZones>>
                   ELSE IF Len(createQueue) = 1 THEN Finish("ok")
                   ELSE /\ createQueue' = Tail(createQueue)
                        /\ UNCHANGED <<pc, result, delQueue, recordIDs, recZones>>
    /\ UNCHANGED <<util, conc, managed, zones, op, changes, zoneMap, endpoints, ops>>

\* BatchCreatePrivateZoneRecord: one BatchCreateRecord call of BatchForEach
ApplyBatchCreate(resp) ==
    /\ pc = "apply_create"
    /\ LET zid == createQueue[1].zid
           recs == FirstBatch(createQueue[1].records, defaultBatchSize)
           rest == RestBatch(createQueue[1].records, defaultBatchSize)
       IN  /\ resp = "ok" => zid \in DOMAIN store /\ ~Duplicates(zid, recs)
           /\ calls' = Append(calls, Call("BatchCreateRecord", zid, recs, resp))
           /\ IF resp = "ok"
              THEN /\ store' = [store EXCEPT ![zid] = RemoteAppend(zid, recs)]
                   /\ nextID' = nextID + Len(recs)
                   /\ origin' = [id \in DOMAIN origin \cup (nextID..(nextID + Len(recs) - 1)) |->
                                    IF id \in DOMAIN origin THEN origin[id]
                                    ELSE recs[id - nextID + 1].src]
              ELSE UNCHANGED <<store, nextID, origin>>
           /\ IF Failed(resp) THEN Finish("err")
              ELSE IF Len(rest) > 0
                   THEN /\ createQueue' = <<[zid |-> zid, records |-> rest]>> \o Tail(createQueue)
                        /\ UNCHANGED <<pc, result, delQueue, recordIDs, recZones>>
                   ELSE IF Len(createQueue) = 1 THEN Finish("ok")
                   ELSE /\ createQueue' = Tail(createQueue)
                        /\ UNCHANGED <<pc, result, delQueue, recordIDs, recZones>>
    /\ UNCHANGED <<util, conc, managed, zones, op, changes, zoneMap, endpoints, ops>>

(***************************************************************************)
(* Provider.Records: PrivateZoneWrapper.ListRecordsByVPC.                  *)
(***************************************************************************)
\* as Records, with an empty list of zones returned as an error
Records_NoZonesIsError(resp) ==
    /\ pc = "idle"
    /\ ops < MaxOps
    /\ ops' = ops + 1
    /\ op' = "Records"
    /\ changes' = NoChanges
    /\ zoneMap' = <<>>
    /\ endpoints' = <<>>
    /\ \E failPage \in 1..NumPages(zones, defaultPageSize) :
       LET r == ListAll(zones, failPage, resp)
       IN  /\ calls' = ListCalls("ListPrivateZones", 0, r.pages, failPage, resp)
           /\ IF r.err \/ Len(r.all) = 0 THEN Finish("err")
              ELSE /\ pc' = "records_list"
                   /\ result' = "none"
                   /\ recZones' = r.all
                   /\ delQueue' = <<>>
                   /\ recordIDs' = <<>>
                   /\ createQueue' = <<>>
    /\ UNCHANGED <<util, conc, managed, zones, store, nextID, origin>>

\* Records() up to the return of ListPrivateZones
Records(resp) ==
    /\ pc = "idle"
    /\ ops < MaxOps
    /\ ops' = ops + 1
    /\ op' = "Records"
    /\ changes' = NoChanges
    /\ zoneMap' = <<>>
    /\ endpoints' = <<>>
    /\ \E failPage \in 1..NumPages(zones, defaultPageSize) :
       LET r == ListAll(zones, failPage, resp)
       IN  /\ calls' = ListCalls("ListPrivateZones", 0, r.pages, failPage, resp)
           /\ IF r.err THEN Finish("err")
              ELSE IF Len(r.all) = 0 THEN Finish("ok")
              ELSE /\ pc' = "records_list"
                   /\ result' = "none"
                   /\ recZones' = r.all
                   /\ delQueue' = <<>>
                   /\ recordIDs' = <<>>
                   /\ createQueue' = <<>>
    /\ UNCHANGED <<util, conc, managed, zones, store, nextID, origin>>

\* one iteration of the loop over the zones: GetPrivateZoneRecords, grouping
RecordsListRecords(resp) ==
    /\ pc = "records_list"
    /\ \E failPage \in 1..NumPages(ZoneRecords(recZones[1].ZID), defaultPageSize) :
       LET zone == recZones[1]
           r == ListAll(ZoneRecords(zone.ZID), failPage, resp)
       IN  /\ calls' = calls \o ListCalls("ListRecords", zone.ZID, r.pages, failPage, resp)
           /\ IF r.err
              THEN endpoints' = <<>> /\ Finish("err")
              ELSE /\ \E es \in ZoneEndpoints(r.all, zone.ZoneName) : endpoints' = endpoints \o es
                   /\ IF Len(recZones) = 1 THEN Finish("ok")
                      ELSE /\ recZones' = Tail(recZones)
                           /\ UNCHANGED <<pc, result, delQueue, recordIDs, createQueue>>
    /\ UNCHANGED <<util, conc, managed, zones, store, nextID, origin, op, changes, zoneMap, ops>>

(***************************************************************************)
(* The by-ID and single-record operations of PrivateZoneWrapper.           *)
(***************************************************************************)
\* the record the single-record operations are called with
ToolRecord == [Host |-> "www", Type |-> "A", Value |-> "1.2.3.4", TTL |-> 60]

IDsOf(zid) == {store[zid][i].RecordID : i \in 1..Len(store[zid])}

WrapperStart(name) ==
    /\ pc = "idle"
    /\ ops < MaxOps
    /\ ops' = ops + 1
    /\ op' = name
    /\ changes' = NoChanges
    /\ zoneMap' = <<>>
    /\ endpoints' = <<>>

\* CreatePrivateZoneRecord(zid, host, type, target, TTL)
CreatePrivateZoneRecord(zid, resp) ==
    /\ WrapperStart("CreatePrivateZoneRecord")
    /\ resp = "ok" => ~Duplicates(zid, <<ToolRecord>>)
    /\ calls' = <<Call("CreateRecord", zid, ToolRecord, resp)>>
    /\ IF resp = "ok"
       THEN /\ store' = [store EXCEPT ![zid] = RemoteAppend(zid, <<ToolRecord>>)]
            /\ nextID' = nextID + 1
       ELSE UNCHANGED <<store, nextID>>
    /\ Finish(IF Failed(resp) THEN "err" ELSE "ok")
    /\ UNCHANGED <<util, conc, managed, zones, origin>>

\* UpdatePrivateZoneRecord(zid, recordID, host, type, target, TTL)
UpdatePrivateZoneRecord(zid, recordID, resp) ==
    /\ WrapperStart("UpdatePrivateZoneRecord")
    /\ resp = "ok" =>
          /\ recordID \in IDsOf(zid)
          /\ \A i \in 1..Len(store[zid]) :
                store[zid][i].RecordID # recordID =>
                    ~(/\ store[zid][i].Host = ToolRecord.Host
                      /\ store[zid][i].Type = ToolRecord.Type
                      /\ store[zid][i].Value = ToolRecord.Value)
    /\ calls' = <<Call("UpdateRecord", zid, recordID, resp)>>
    /\ IF resp = "ok"
       THEN /\ store' = [store EXCEPT ![zid] =
                            [i \in 1..Len(store[zid]) |->
                                IF store[zid][i].RecordID = recordID
                                THEN [ToolRecord EXCEPT !.TTL = 60] @@ [RecordID |-> recordID]
                                ELSE store[zid][i]]]
            /\ origin' = [id \in DOMAIN origin \ {recordID} |-> origin[id]]
       ELSE UNCHANGED <<store, origin>>
    /\ Finish(IF Failed(resp) THEN "err" ELSE "ok")
    /\ UNCHANGED <<util, conc, managed, zones, nextID>>

\* DeletePrivateZoneRecordById(zid, recordID)
DeletePrivateZoneRecordById(zid, recordID, resp) ==
    /\ WrapperStart("DeletePrivateZoneRecordById")
    /\ resp = "ok" => recordID \in IDsOf(zid)
    /\ calls' = <<Call("DeleteRecord", zid, recordID, resp)>>
    /\ IF resp = "ok"
       THEN /\ store' = [store EXCEPT ![zid] = RemoteRemove(zid, <<recordID>>)]
            /\ origin' = [id \in DOMAIN origin \ {recordID} |-> origin[id]]
       ELSE UNCHANGED <<store, origin>>
    /\ Finish(IF Failed(resp) THEN "err" ELSE "ok")
    /\ UNCHANGED <<util, conc, managed, zones, nextID>>

\* the caller takes the result; nothing of the invocation is kept
Return ==
    /\ pc = "done"
    /\ pc' = "idle"
    /\ op' = "none"
    /\ changes' = NoChanges
    /\ zoneMap' = <<>>
    /\ endpoints' = <<>>
    /\ calls' = <<>>
    /\ result' = "none"
    /\ UNCHANGED <<util, conc, managed, zones, store, nextID, origin, delQueue, recordIDs, createQueue, recZones, ops>>

(***************************************************************************)
(* Specification.                                                          *)
(***************************************************************************)
Next ==
    \/ Return
    \/ ApplyChangesNil
    \/ pc = "idle" /\ \E c \in ChangeSets(managed), resp \in Resp : ApplyChanges(c, resp)
    \/ pc = "apply_delete_list" /\ \E resp \in Resp : ApplyDeleteList(resp)
    \/ pc = "apply_delete_batch" /\ \E resp \in Resp : ApplyBatchDelete(resp)
    \/ pc = "apply_create" /\ \E resp \in Resp : ApplyBatchCreate(resp)
    \/ pc = "idle" /\ \E resp \in Resp : Records(resp)
    \/ pc = "records_list" /\ \E resp \in Resp : RecordsListRecords(resp)
    \/ pc = "idle" /\ \E zid \in ZIDs, resp \in Resp : CreatePrivateZoneRecord(zid, resp)
    \/ pc = "idle" /\ \E zid \in ZIDs, resp \in Resp :
            \E id \in IDsOf(zid) : UpdatePrivateZoneRecord(zid, id, resp)
    \/ pc = "idle" /\ \E zid \in ZIDs, resp \in Resp :
            \E id \in IDsOf(zid) : DeletePrivateZoneRecordById(zid, id, resp)

Spec == Init /\ [][Next]_vars

(***************************************************************************)
(* The utility functions on their own: BatchForEach, QueryAll, the listing *)
(* wrappers over QueryAll, and getDNSName / splitDNSName.  The arguments   *)
(* are fixed by the initial state; one step makes the call.                *)
(***************************************************************************)
\* the items numbered from up to to - 1
Numbered(from, to) == [j \in 1..(to - from) |-> from + j - 1]

\* a query function that reports totals[p] with page p (the last total with
\* a later page), serves the items numbered (p-1)*pageSize up to
\* min(p*pageSize, total)-1 and fails on page failPage (0: on none)
MockQuery(pageSize, totals, failPage) ==
    [p \in 1..(Len(totals) + 1) |->
        LET total == totals[Min(p, Len(totals))]
        IN  IF p = failPage THEN [err |-> TRUE, data |-> <<>>, total |-> 0]
            ELSE [err |-> FALSE,
                  data |-> Numbered((p - 1) * pageSize, Min(p * pageSize, total)),
                  total |-> total]]

\* relative hosts and zone names getDNSName is called with
Hosts == {"@", "www", "a.b", "*", "example.com", "com", "w"}

ZoneNames == {"example.com", "b.example.com", "com", "internal", "w.w"}

\* as BatchRequests, with the whole list in one request
BatchRequests_OneRequest(items, failAt) ==
    IF Len(items) = 0 THEN <<>> ELSE <<items>>

\* BatchCreatePrivateZoneRecord / batchDeletePrivateZoneRecord: the requests
\* sent for a list, the request failAt being answered with an error
BatchRequests(items, failAt) == BatchForEach(items, defaultBatchSize, failAt).applied

\* names handed to splitDNSName: of the zone, under it, with trailing dots,
\* of another zone, and ending in the zone name off a label boundary
DNSNames ==
    {"www.example.com", "www.example.com.", "example.com", "example.com.", "example.com..",
     "www.different.com", "wwwexample.com", "wwwexample.com.", "a.b.example.com",
     ".example.com", "com", "w.w", "internal."}

\* TXT values: quoted and unquoted, with and without the heritage= marker
TXTValues ==
    {"\"heritage=x\"", "heritage=x", "\"normal txt record\"", "normal txt record",
     "\"\"heritage=x\"\"", "\"heritage=\"heritage=x\"\"", "\"heritage=", "x\"heritage=y\"",
     "", "\""}

\* CNAME values: without a dot, with one, with several, and without a name
CNAMEValues == {"example.com", "example.com.", "example.com..", "", ".", "..", "t.io", "t.io."}

UtilCall(fn, in) == [fn |-> fn, phase |-> "call", in |-> in, out |-> <<>>]

UtilCalls ==
    {UtilCall("BatchForEach", [items |-> Numbered(1, n + 1), batchSize |-> b, failAt |-> k]) :
        n \in 0..MaxItems, b \in (0 - 1)..MaxBatch, k \in 0..MaxItems}
    \cup
    {UtilCall("QueryAll", [pageSize |-> ps, totals |-> t, failPage |-> k]) :
        ps \in (0 - 1)..MaxPageSize, t \in [1..MaxTotal -> 0..MaxTotal], k \in 0..MaxTotal}
    \cup
    {UtilCall("ListAll", [listing |-> Numbered(0, n), failPage |-> k, resp |-> r]) :
        n \in 0..MaxItems, k \in 0..1, r \in Resp}
    \cup
    {UtilCall("splitDNSName", [host |-> h, zoneName |-> z]) : h \in Hosts, z \in ZoneNames}
    \cup
    {UtilCall("splitName", [dnsName |-> n, zoneName |-> z]) : n \in DNSNames, z \in ZoneNames}
    \cup
    {UtilCall("escapeTXTRecordValue", [value |-> v]) : v \in TXTValues}
    \cup
    {UtilCall("cleanCNAMEValue", [value |-> v]) : v \in CNAMEValues}
    \cup
    {UtilCall("BatchRequests", [items |-> Numbered(1, n + 1), failAt |-> k]) :
        n \in 0..MaxRecords, k \in 0..3}

UtilInit ==
    /\ managed = {}
    /\ zones = InitZones
    /\ store = [z \in {InitZones[i].ZID : i \in 1..Len(InitZones)} |-> <<>>]
    /\ nextID = 1
    /\ origin = <<>>
    /\ pc = "idle"
    /\ op = "none"
    /\ changes = NoChanges
    /\ zoneMap = <<>>
    /\ delQueue = <<>>
    /\ recordIDs = <<>>
    /\ createQueue = <<>>
    /\ recZones = <<>>
    /\ endpoints = <<>>
    /\ calls = <<>>
    /\ result = "none"
    /\ ops = 0
    /\ util \in UtilCalls
    /\ conc = NoConc

\* the call returns out
UtilReturn(out) ==
    /\ util.phase = "call"
    /\ util' = [util EXCEPT !.phase = "done", !.out = out]
    /\ UNCHANGED <<conc, managed, zones, store, nextID, origin, pc, op, changes, zoneMap, delQueue,
                   recordIDs, createQueue, recZones, endpoints, calls, result, ops>>

CallBatchForEach ==
    /\ util.fn = "BatchForEach"
    /\ UtilReturn(BatchForEach(util.in.items, util.in.batchSize, util.in.failAt))

CallQueryAll ==
    /\ util.fn = "QueryAll"
    /\ UtilReturn(QueryAll(util.in.pageSize,
                           MockQuery(util.in.pageSize, util.in.totals, util.in.failPage)))

\* GetPrivateZoneRecords / ListPrivateZones over a listing
CallListAll ==
    /\ util.fn = "ListAll"
    /\ UtilReturn(ListAll(util.in.listing, util.in.failPage, util.in.resp))

CallSplitDNSName ==
    /\ util.fn = "splitDNSName"
    /\ UtilReturn(splitDNSName(getDNSName(util.in.host, util.in.zoneName), util.in.zoneName))

\* splitDNSName on a name as given
CallSplitName ==
    /\ util.fn = "splitName"
    /\ UtilReturn(splitDNSName(util.in.dnsName, util.in.zoneName))

\* escapeTXTRecordValue once, and on its own result
CallEscapeTXTRecordValue ==
    /\ util.fn = "escapeTXTRecordValue"
    /\ UtilReturn([once |-> escapeTXTRecordValue(util.in.value),
                   twice |-> escapeTXTRecordValue(escapeTXTRecordValue(util.in.value))])

\* cleanCNAMEValue on a value, and on the value completed
CallCleanCNAMEValue ==
    /\ util.fn = "cleanCNAMEValue"
    /\ UtilReturn([direct |-> cleanCNAMEValue(util.in.value),
                   completed |-> cleanCNAMEValue(completeCNAMEValue(util.in.value))])

\* a batch wrapper over a list of records or record IDs
CallBatchRequests ==
    /\ util.fn = "BatchRequests"
    /\ UtilReturn(BatchRequests(util.in.items, util.in.failAt))

UtilNext ==
    \/ CallBatchForEach
    \/ CallQueryAll
    \/ CallListAll
    \/ CallSplitDNSName
    \/ CallSplitName
    \/ CallEscapeTXTRecordValue
    \/ CallCleanCNAMEValue
    \/ CallBatchRequests

UtilSpec == UtilInit /\ [][UtilNext]_vars

(***************************************************************************)
(* The provider while the zones of the VPC change outside it: between two  *)
(* invocations a zone is unbound from the VPC, or bound to it again.       *)
(***************************************************************************)
ExternalUnbind(zid) ==
    /\ pc = "idle"
    /\ zid \in ZIDs
    /\ zones' = SelectSeq(zones, LAMBDA z : z.ZID # zid)
    /\ UNCHANGED <<util, conc, managed, store, nextID, origin, pc, op, changes, zoneMap, delQueue,
                   recordIDs, createQueue, recZones, endpoints, calls, result, ops>>

ExternalBind(zone) ==
    /\ pc = "idle"
    /\ zone.ZID \notin ZIDs
    /\ zones' = Append(zones, zone)
    /\ UNCHANGED <<util, conc, managed, store, nextID, origin, pc, op, changes, zoneMap, delQueue,
                   recordIDs, createQueue, recZones, endpoints, calls, result, ops>>

ExternalNext ==
    \/ Return
    \/ ApplyChangesNil
    \/ pc = "idle" /\ \E c \in ChangeSets(managed), resp \in Resp : ApplyChanges(c, resp)
    \/ pc = "apply_delete_list" /\ \E resp \in Resp : ApplyDeleteList(resp)
    \/ pc = "apply_delete_batch" /\ \E resp \in Resp : ApplyBatchDelete(resp)
    \/ pc = "apply_create" /\ \E resp \in Resp : ApplyBatchCreate(resp)
    \/ pc = "idle" /\ \E resp \in Resp : Records(resp)
    \/ pc = "records_list" /\ \E resp \in Resp : RecordsListRecords(resp)
    \/ pc = "idle" /\ \E zid \in ZIDs, resp \in Resp : CreatePrivateZoneRecord(zid, resp)
    \/ pc = "idle" /\ \E zid \in ZIDs, resp \in Resp :
            \E id \in IDsOf(zid) : UpdatePrivateZoneRecord(zid, id, resp)
    \/ pc = "idle" /\ \E zid \in ZIDs, resp \in Resp :
            \E id \in IDsOf(zid) : DeletePrivateZoneRecordById(zid, id, resp)
    \/ pc = "idle" /\ \E zid \in ZIDs : ExternalUnbind(zid)
    \/ pc = "idle" /\ \E i \in 1..Len(InitZones) : ExternalBind(InitZones[i])

ExternalSpec == Init /\ [][ExternalNext]_vars

(***************************************************************************)
(* Two ApplyChanges invocations at once.  The provider is called from the  *)
(* webhook's HTTP handlers, one goroutine per request; the steps of an     *)
(* invocation are its remote calls, and between two of them the other      *)
(* invocation may run.  The variables of the invocation hold the one that  *)
(* runs; conc.parked holds the other.                                      *)
(***************************************************************************)
\* the zone example.com already holds the records of www.example.com A
\* 1.1.1.1, 1.1.1.2, created by an earlier ApplyChanges
ConcRecords ==
    << [Host |-> "www", Type |-> "A", Value |-> "1.1.1.1", TTL |-> 300, RecordID |-> 1],
       [Host |-> "www", Type |-> "A", Value |-> "1.1.1.2", TTL |-> 300, RecordID |-> 2] >>

\* plans of one change over the endpoints of www.example.com
ConcChanges ==
    {c \in ChangeSets(managed) : Len(c.Create) + Len(c.Delete) + Len(c.UpdateOld) = 1}

ConcInit ==
    /\ managed = { EP("www.example.com", "A", <<"1.1.1.1", "1.1.1.2">>, 300),
                   EP("www.example.com", "A", <<"1.1.1.3">>, 60) }
    /\ zones = InitZones
    /\ store = [z \in {InitZones[i].ZID : i \in 1..Len(InitZones)} |->
                    IF z = 1 THEN ConcRecords ELSE <<>>]
    /\ nextID = 3
    /\ origin = [id \in 1..2 |-> [DNSName |-> "www.example.com", RecordType |-> "A",
                                   Target |-> ConcRecords[id].Value]]
    /\ pc = "idle"
    /\ op = "none"
    /\ changes = NoChanges
    /\ zoneMap = <<>>
    /\ delQueue = <<>>
    /\ recordIDs = <<>>
    /\ createQueue = <<>>
    /\ recZones = <<>>
    /\ endpoints = <<>>
    /\ calls = <<>>
    /\ result = "none"
    /\ ops = 0
    /\ util = NoUtil
    /\ conc = NoConc

\* as Switch, with an invocation holding a lock from its start to its return
Switch_Locked ==
    /\ conc.switches < MaxSwitches
    /\ pc \in {"idle", "done"}
    /\ pc # "idle" \/ conc.parked.pc # "idle"
    /\ pc' = conc.parked.pc
    /\ op' = conc.parked.op
    /\ changes' = conc.parked.changes
    /\ zoneMap' = conc.parked.zoneMap
    /\ delQueue' = conc.parked.delQueue
    /\ recordIDs' = conc.parked.recordIDs
    /\ createQueue' = conc.parked.createQueue
    /\ recZones' = conc.parked.recZones
    /\ endpoints' = conc.parked.endpoints
    /\ calls' = conc.parked.calls
    /\ result' = conc.parked.result
    /\ conc' = [parked |-> [pc |-> pc, op |-> op, changes |-> changes, zoneMap |-> zoneMap,
                            delQueue |-> delQueue, recordIDs |-> recordIDs,
                            createQueue |-> createQueue, recZones |-> recZones,
                            endpoints |-> endpoints, calls |-> calls, result |-> result],
                switches |-> conc.switches + 1,
                overlapped |-> conc.overlapped]
    /\ UNCHANGED <<util, managed, zones, store, nextID, origin, ops>>

\* the other invocation takes the processor: nothing in applyChangesForPrivateZone
\* or the wrapper keeps it from running between two remote calls of this one
Switch ==
    /\ conc.switches < MaxSwitches
    /\ pc # "idle" \/ conc.parked.pc # "idle"
    /\ pc' = conc.parked.pc
    /\ op' = conc.parked.op
    /\ changes' = conc.parked.changes
    /\ zoneMap' = conc.parked.zoneMap
    /\ delQueue' = conc.parked.delQueue
    /\ recordIDs' = conc.parked.recordIDs
    /\ createQueue' = conc.parked.createQueue
    /\ recZones' = conc.parked.recZones
    /\ endpoints' = conc.parked.endpoints
    /\ calls' = conc.parked.calls
    /\ result' = conc.parked.result
    /\ conc' = [parked |-> [pc |-> pc, op |-> op, changes |-> changes, zoneMap |-> zoneMap,
                            delQueue |-> delQueue, recordIDs |-> recordIDs,
                            createQueue |-> createQueue, recZones |-> recZones,
                            endpoints |-> endpoints, calls |-> calls, result |-> result],
                switches |-> conc.switches + 1,
                overlapped |-> conc.overlapped \/ pc \notin {"idle", "done"}]
    /\ UNCHANGED <<util, managed, zones, store, nextID, origin, ops>>

ConcNext ==
    \/ pc = "idle" /\ \E c \in ConcChanges, resp \in Resp : ApplyChanges(c, resp)
    \/ pc = "apply_delete_list" /\ \E resp \in Resp : ApplyDeleteList(resp)
    \/ pc = "apply_delete_batch" /\ \E resp \in Resp : ApplyBatchDelete(resp)
    \/ pc = "apply_create" /\ \E resp \in Resp : ApplyBatchCreate(resp)
    \/ Switch

ConcSpec == ConcInit /\ [][ConcNext]_vars

(***************************************************************************)
(* Properties.                                                             *)
(***************************************************************************)
\* the zones whose name is the name or a suffix of it on a label boundary
OwningCandidates(dnsName) ==
    {i \in 1..Len(zones) : dnsName = zones[i].ZoneName
                             \/ HasSuffix(dnsName, "." \o zones[i].ZoneName)}

Owned(eps) == SelectSeq(eps, LAMBDA ep : OwningCandidates(ep.DNSName) # {})

CallsOf(apis) == {i \in 1..Len(calls) : calls[i].api \in apis}

\* C1: in an ApplyChanges call, a BatchCreateRecord call is issued only when
\* every Delete and UpdateOld endpoint owned by a zone has had its records
\* listed, and no listing or batch-delete follows a batch-create.
C1_DeletesBeforeCreates ==
    op = "ApplyChanges" =>
        \A j \in CallsOf({"BatchCreateRecord"}) :
            /\ \A k \in (j + 1)..Len(calls) :
                  calls[k].api \notin {"ListRecords", "BatchDeleteRecord"}
            /\ Cardinality({k \in 1..(j - 1) : calls[k].api = "ListRecords"})
                  = Len(Owned(toDelete(changes)))

C1_Witness ==
    /\ op = "ApplyChanges"
    /\ Len(changes.UpdateOld) > 0
    /\ \E i, j \in 1..Len(calls) :
          /\ i < j
          /\ calls[i].api = "BatchDeleteRecord"
          /\ calls[j].api = "BatchCreateRecord"

\* C2: the record IDs DeletePrivateZoneRecord resolves, and then sends in
\* batch-delete calls, are exactly the IDs of the zone's records whose host and
\* type equal the arguments and whose normalized value is one of the targets.
C2_DeletesExactlyMatching ==
    (pc = "apply_delete_batch" /\ calls[Len(calls)].api = "ListRecords") =>
        LET ep == delQueue[1].ep
            zid == calls[Len(calls)].zid
            host == splitDNSName(ep.DNSName, zoneMap[delQueue[1].zone]).host
            expected == {store[zid][i].RecordID : i \in
                            {i \in 1..Len(store[zid]) :
                                /\ store[zid][i].Host = host
                                /\ store[zid][i].Type = ep.RecordType
                                /\ CompareValue(store[zid][i]) \in Range(ep.Targets)}}
        IN  /\ Range(recordIDs) = expected
            /\ Len(recordIDs) = Cardinality(expected)
            /\ FirstBatch(recordIDs, defaultBatchSize) = recordIDs

C2_Witness ==
    /\ pc = "apply_delete_batch"
    /\ calls[Len(calls)].api = "ListRecords"
    /\ Len(recordIDs) >= 1
    /\ LET zid == calls[Len(calls)].zid
       IN  \E i, j \in 1..Len(store[zid]) :
              /\ store[zid][i].RecordID \in Range(recordIDs)
              /\ store[zid][j].RecordID \notin Range(recordIDs)
              /\ store[zid][j].Host = store[zid][i].Host
              /\ store[zid][j].Type = store[zid][i].Type

ZoneNameOf(zid) == zones[CHOOSE i \in 1..Len(zones) : zones[i].ZID = zid].ZoneName

\* the zone that owns a name: the candidate with the longest name
OwnerZID(dnsName) ==
    zones[CHOOSE i \in OwningCandidates(dnsName) :
            \A j \in OwningCandidates(dnsName) :
                Len(zones[j].ZoneName) <= Len(zones[i].ZoneName)].ZID

\* what the create endpoints owned by a zone are to become, one entry per target
ExpectedCreate(zid) ==
    Flatten(MapSeq(SelectSeq(Owned(toCreate(changes)), LAMBDA ep : OwnerZID(ep.DNSName) = zid),
                   LAMBDA ep : MapSeq(ep.Targets, LAMBDA t :
                       [DNSName |-> ep.DNSName, Type |-> ep.RecordType,
                        Value |-> t, TTL |-> ep.RecordTTL])))

\* what a batch-create call asks the remote to store
Sent(call) ==
    MapSeq(call.arg, LAMBDA r :
        [DNSName |-> getDNSName(r.Host, ZoneNameOf(call.zid)), Type |-> r.Type,
         Value |-> r.Value, TTL |-> r.TTL])

\* C3: an ApplyChanges that succeeds has issued exactly one batch-create call
\* for each zone owning create endpoints (all with a TTL above 0), and in it
\* every endpoint has one record per target, in target order, with the host
\* relative to the zone, the endpoint's type and the endpoint's TTL.
C3_OneBatchCreatePerZone ==
    (/\ op = "ApplyChanges" /\ pc = "done" /\ result = "ok"
     /\ \A i \in 1..Len(toCreate(changes)) :
           /\ toCreate(changes)[i].RecordTTL > 0
           /\ toCreate(changes)[i].RecordType # "TXT") =>
        \A z \in 1..Len(zones) :
            LET zid == zones[z].ZID
                sent == {k \in CallsOf({"BatchCreateRecord"}) : calls[k].zid = zid}
            IN  IF ExpectedCreate(zid) = <<>> THEN sent = {}
                ELSE /\ Cardinality(sent) = 1
                     /\ \A k \in sent : Sent(calls[k]) = ExpectedCreate(zid)

C3_Witness ==
    /\ op = "ApplyChanges" /\ pc = "done" /\ result = "ok"
    /\ \E k \in CallsOf({"BatchCreateRecord"}) :
          /\ Len(calls[k].arg) = 2
          /\ calls[k].arg[1].TTL = 300
          /\ calls[k].arg[1].Host = "www"
          /\ calls[k].arg[2].Value = "1.1.1.2"

\* the (type, host) groups among a zone's stored records
GroupsOf(zid) == {<<store[zid][i].Type, store[zid][i].Host>> : i \in 1..Len(store[zid])}

GroupRecords(zid, g) == SelectSeq(store[zid], LAMBDA r : r.Type = g[1] /\ r.Host = g[2])

AllGroups == {x \in ZIDs \X UNION {GroupsOf(zid) : zid \in ZIDs} : x[2] \in GroupsOf(x[1])}

\* the endpoint of a group whose targets are the stored values as they are
RawEndpoint(x) ==
    EP(getDNSName(x[2][2], ZoneNameOf(x[1])), x[2][1],
       MapSeq(GroupRecords(x[1], x[2]), LAMBDA r : r.Value),
       GroupRecords(x[1], x[2])[1].TTL)

\* the endpoint of a group whose targets other than TXT have lost a trailing dot
TrimmedEndpoint(x) ==
    EP(getDNSName(x[2][2], ZoneNameOf(x[1])), x[2][1],
       MapSeq(GroupRecords(x[1], x[2]),
              LAMBDA r : IF r.Type = "TXT" THEN r.Value ELSE TrimSuffix(r.Value, ".")),
       GroupRecords(x[1], x[2])[1].TTL)

RecordsReturned == op = "Records" /\ pc = "done" /\ result = "ok"

ReadBackForm(o) ==
    IF o.RecordType = "TXT"
    THEN (IF HasPrefix(o.Target, "\"heritage=") THEN RemoveAll(o.Target, "\"") ELSE o.Target)
    ELSE TrimSuffix(o.Target, ".")

DeleteResolved ==
    /\ pc = "apply_delete_list"
    /\ Len(calls') = Len(calls) + 1
    /\ calls'[Len(calls')].api = "ListRecords"
    /\ calls'[Len(calls')].resp = "ok"

\* the stored TXT and CNAME records of the host and type under deletion
DeleteCandidates ==
    LET zid == ParseInt(delQueue[1].zone).val
        host == splitDNSName(delQueue[1].ep.DNSName, zoneMap[delQueue[1].zone]).host
    IN  {store[zid][i] : i \in
            {i \in 1..Len(store[zid]) :
                /\ store[zid][i].Host = host
                /\ store[zid][i].Type = delQueue[1].ep.RecordType
                /\ store[zid][i].Type \in {"TXT", "CNAME"}}}

\* the target is the endpoint form of the stored value: a heritage= TXT value
\* in double quotes, a CNAME target without the trailing dot
InEndpointForm(target, r) ==
    IF r.Type = "TXT"
    THEN target = (IF HasPrefix(r.Value, "heritage=") THEN "\"" \o r.Value \o "\"" ELSE r.Value)
    ELSE ~HasSuffix(target, ".") /\ (target = r.Value \/ target \o "." = r.Value)

\* the target and the stored value differ at most by the quotes or the dot
SameUpToForm(target, r) ==
    IF r.Type = "TXT"
    THEN RemoveAll(target, "\"") = RemoveAll(r.Value, "\"")
    ELSE TrimSuffix(target, ".") = TrimSuffix(r.Value, ".")

C7_LongestSuffixZoneWins ==
    /\ \A k \in CallsOf({"BatchCreateRecord"}) :
          \A i \in 1..Len(calls[k].arg) :
              /\ OwningCandidates(calls[k].arg[i].src.DNSName) # {}
              /\ calls[k].zid = OwnerZID(calls[k].arg[i].src.DNSName)
    /\ pc \in {"apply_delete_list", "apply_delete_batch"} =>
          /\ OwningCandidates(delQueue[1].ep.DNSName) # {}
          /\ ParseInt(delQueue[1].zone).val = OwnerZID(delQueue[1].ep.DNSName)
    /\ op = "ApplyChanges" =>
          \A k \in CallsOf({"ListRecords", "BatchDeleteRecord"}) :
              \E i \in 1..Len(toDelete(changes)) :
                  /\ OwningCandidates(toDelete(changes)[i].DNSName) # {}
                  /\ calls[k].zid = OwnerZID(toDelete(changes)[i].DNSName)

C7_Witness ==
    /\ op = "ApplyChanges"
    /\ \E k \in CallsOf({"BatchCreateRecord"}) :
          /\ calls[k].zid = 2
          /\ calls[k].arg[1].src.DNSName = "a.b.example.com"
          /\ calls[k].arg[1].Host = "a"
    /\ \E k \in CallsOf({"ListRecords"}) : calls[k].zid = 2
    /\ \A k \in 1..Len(calls) : calls[k].zid # 1
    /\ Cardinality(OwningCandidates("a.b.example.com")) = 2

\* C8: in an ApplyChanges call a remote call that fails is the last remote
\* call of the invocation, and the invocation has returned the error: the
\* deletes and creates still ahead are not attempted.
C8_FirstFailureAborts ==
    op = "ApplyChanges" =>
        /\ \A i \in 1..Len(calls) :
              calls[i].resp # "ok" => (i = Len(calls) /\ pc = "done" /\ result = "err")
        /\ (pc = "done" /\ result = "err") => calls[Len(calls)].resp # "ok"

C8_Witness ==
    /\ op = "ApplyChanges" /\ pc = "done" /\ result = "err"
    /\ calls[Len(calls)].api = "BatchDeleteRecord"
    /\ Len(Owned(toCreate(changes))) > 0
    /\ Len(Owned(toDelete(changes))) > 0
    /\ CallsOf({"BatchCreateRecord"}) = {}

\* the stored records a delete endpoint still matches
Remaining(ep) ==
    LET zid == OwnerZID(ep.DNSName)
    IN  MatchingIDs(store[zid], splitDNSName(ep.DNSName, ZoneNameOf(zid)).host,
                    ep.RecordType, ep.Targets)

\* C9: when the first batch-create of an ApplyChanges fails after its deletes
\* have succeeded, the invocation returns the error and the deleted records
\* stay deleted: their IDs are not in the store and no stored record matches
\* a delete endpoint.
C9_NoRollbackOfDeletes ==
    (/\ op = "ApplyChanges"
     /\ Cardinality(CallsOf({"BatchCreateRecord"})) = 1
     /\ calls[Len(calls)].api = "BatchCreateRecord"
     /\ calls[Len(calls)].resp # "ok") =>
        /\ pc = "done"
        /\ result = "err"
        /\ \A k \in CallsOf({"BatchDeleteRecord"}) :
              /\ calls[k].resp = "ok"
              /\ \A zid \in ZIDs : Range(calls[k].arg) \cap IDsOf(zid) = {}
        /\ \A i \in 1..Len(Owned(toDelete(changes))) :
              Remaining(Owned(toDelete(changes))[i]) = <<>>

C9_Witness ==
    /\ op = "ApplyChanges" /\ pc = "done" /\ result = "err"
    /\ calls[Len(calls)].api = "BatchCreateRecord"
    /\ Len(changes.UpdateOld) = 1
    /\ \E k \in CallsOf({"BatchDeleteRecord"}) :
          /\ calls[k].resp = "ok"
          /\ store[calls[k].zid] = <<>>

\* C10: a remote call answered with a soft error is the last remote call of
\* its invocation, which returns an error as it does on a transport error;
\* Records returns no endpoint, and the answer contributes nothing.
C10_SoftErrorIsFailure ==
    \A i \in 1..Len(calls) :
        calls[i].resp \in {"soft", "transport"} =>
            /\ i = Len(calls)
            /\ pc = "done"
            /\ result = "err"
            /\ endpoints = <<>>
            /\ zoneMap = <<>> \/ calls[i].api # "ListPrivateZones"

C10_Witness ==
    /\ op = "Records" /\ pc = "done" /\ result = "err"
    /\ Len(calls) = 3
    /\ calls[3].api = "ListRecords"
    /\ calls[3].resp = "soft"
    /\ store[1] # <<>>
    /\ endpoints = <<>>

CeilDiv(n, d) == (n + d - 1) \div d

Max(a, b) == IF a > b THEN a ELSE b

\* slice k of the items when they are cut into slices of b
SliceOf(items, b, k) == SubSeq(items, (k - 1) * b + 1, Min(k * b, Len(items)))

BatchReturned == util.fn = "BatchForEach" /\ util.phase = "done"

\* C11: for a batch size above 0 and n items, BatchForEach without a failing
\* call calls f exactly ceil(n/batchSize) times, call k with the k-th
\* consecutive slice of at most batchSize items (only the last may be
\* shorter), and returns the results of the calls concatenated in that order.
C11_BatchForEachSlices ==
    (BatchReturned /\ util.in.batchSize > 0 /\ ~util.out.err) =>
        LET n == Len(util.in.items)
            b == util.in.batchSize
            ap == util.out.applied
        IN  /\ Len(ap) = CeilDiv(n, b)
            /\ \A k \in 1..Len(ap) :
                  /\ ap[k] = SliceOf(util.in.items, b, k)
                  /\ Len(ap[k]) >= 1
                  /\ Len(ap[k]) <= b
                  /\ k < Len(ap) => Len(ap[k]) = b
            /\ util.out.all = [i \in 1..n |-> util.in.items[i] * 2]

C11_Witness ==
    /\ BatchReturned
    /\ util.in.items = <<1, 2, 3, 4, 5>>
    /\ util.in.batchSize = 2
    /\ util.out.applied = <<<<1, 2>>, <<3, 4>>, <<5>>>>
    /\ util.out.all = <<2, 4, 6, 8, 10>>

\* C12: when f fails on slice k, BatchForEach returns the error and no
\* result, has called f on the slices 1..k and on no slice after k.
C12_BatchForEachAbortsOnError ==
    (/\ BatchReturned
     /\ util.in.batchSize > 0
     /\ util.in.failAt \in 1..CeilDiv(Len(util.in.items), util.in.batchSize)) =>
        /\ util.out.err
        /\ util.out.all = <<>>
        /\ Len(util.out.applied) = util.in.failAt
        /\ \A k \in 1..util.in.failAt :
              util.out.applied[k] = SliceOf(util.in.items, util.in.batchSize, k)

C12_Witness ==
    /\ BatchReturned
    /\ util.in.items = <<1, 2, 3, 4, 5>>
    /\ util.in.batchSize = 2
    /\ util.in.failAt = 2
    /\ util.out.err
    /\ util.out.applied = <<<<1, 2>>, <<3, 4>>>>

QueryReturned == util.fn = "QueryAll" /\ util.phase = "done"

\* the total the query function reports with every page, if it is constant
ConstantTotal(t) == \A p \in DOMAIN util.in.totals : util.in.totals[p] = t

\* the query function fails on none of the first k pages
NoFailureUpTo(k) == util.in.failPage = 0 \/ util.in.failPage > k

\* the first page p with p * pageSize >= the total reported with it
LastPage ==
    CHOOSE p \in 1..(Len(util.in.totals) + 1) :
        /\ p * util.in.pageSize >= util.in.totals[Min(p, Len(util.in.totals))]
        /\ \A q \in 1..(p - 1) : q * util.in.pageSize < util.in.totals[q]

\* C13: for a page size above 0 and a query function that reports a constant
\* total and serves page i as the items numbered (i-1)*pageSize up to
\* min(i*pageSize, total)-1, QueryAll returns the items 0..total-1, each once
\* and in ascending order; for total 0 the empty result after one query call.
C13_QueryAllReturnsAllItems ==
    (QueryReturned /\ util.in.pageSize > 0) =>
        \A t \in 0..MaxTotal :
            (ConstantTotal(t) /\ NoFailureUpTo(Max(1, CeilDiv(t, util.in.pageSize)))) =>
                /\ ~util.out.err
                /\ util.out.all = [i \in 1..t |-> i - 1]
                /\ t = 0 => (util.out.all = <<>> /\ Len(util.out.reqs) = 1)

C13_Witness ==
    /\ QueryReturned
    /\ util.in.pageSize = 3
    /\ ConstantTotal(4)
    /\ util.out.all = <<0, 1, 2, 3>>
    /\ Len(util.out.reqs) = 2

\* C14: QueryAll requests the pages 1, 2, 3, ... in ascending order, each with
\* the same page size, and stops after the first page for which
\* pageNumber * pageSize >= the total reported with that page; under a
\* constant total it makes max(1, ceil(total/pageSize)) query calls.
C14_QueryAllPagesInOrder ==
    (QueryReturned /\ util.in.pageSize > 0 /\ ~util.out.err) =>
        /\ \A i \in 1..Len(util.out.reqs) :
              /\ util.out.reqs[i].pageNum = i
              /\ util.out.reqs[i].pageSize = util.in.pageSize
        /\ Len(util.out.reqs) = LastPage
        /\ util.out.pages = Len(util.out.reqs)
        /\ \A t \in 0..MaxTotal :
              ConstantTotal(t) =>
                  Len(util.out.reqs) = Max(1, CeilDiv(t, util.in.pageSize))

C14_Witness ==
    /\ QueryReturned
    /\ ~util.out.err
    /\ util.in.pageSize = 1
    /\ ~(\E t \in 0..MaxTotal : ConstantTotal(t))
    /\ util.in.totals[1] = 3
    /\ util.in.totals[2] = 2
    /\ Len(util.out.reqs) = 2

ListingReturned == util.fn = "ListAll" /\ util.phase = "done"

\* C15: when the query function fails on page k, QueryAll returns the error
\* and no item, the items of the pages 1..k-1 included, and requests no page
\* after k; a listing of GetPrivateZoneRecords or ListPrivateZones whose
\* remote call fails is an error with no item.
C15_QueryAllPropagatesError ==
    /\ (/\ QueryReturned
        /\ util.in.pageSize > 0
        /\ util.in.failPage \in 1..LastPage) =>
          /\ util.out.err
          /\ util.out.all = <<>>
          /\ Len(util.out.reqs) = util.in.failPage
          /\ util.out.reqs[util.in.failPage].pageNum = util.in.failPage
    /\ (ListingReturned /\ util.in.failPage = 1 /\ util.in.resp # "ok") =>
          /\ util.out.err
          /\ util.out.all = <<>>

C15_Witness ==
    /\ QueryReturned
    /\ util.in.pageSize = 2
    /\ ConstantTotal(4)
    /\ util.in.failPage = 2
    /\ util.out.err
    /\ util.out.all = <<>>
    /\ Len(util.out.reqs) = 2

\* C16: BatchForEach with a batch size of 0 or less and QueryAll with a page
\* size of 0 or less return an error and no result and call neither f nor
\* the query function, whatever the items.
C16_NonPositiveSizeRejected ==
    /\ (BatchReturned /\ util.in.batchSize <= 0) =>
          /\ util.out.err
          /\ util.out.all = <<>>
          /\ util.out.applied = <<>>
    /\ (QueryReturned /\ util.in.pageSize <= 0) =>
          /\ util.out.err
          /\ util.out.all = <<>>
          /\ util.out.reqs = <<>>

C16_Witness ==
    /\ BatchReturned
    /\ util.in.batchSize = 0
    /\ util.in.items = <<1, 2, 3>>
    /\ util.out.err
    /\ util.out.applied = <<>>

\* the endpoints of a sequence that no zone owns
Unowned(eps) == SelectSeq(eps, LAMBDA ep : OwningCandidates(ep.DNSName) = {})

\* C17: an endpoint whose name matches no zone causes no remote call (no
\* record of it in a batch-create, no listing or batch-delete for it) and no
\* failure of ApplyChanges, which fails only on a failed remote call; the
\* endpoints that zones own are still deleted and created.
C17_UnownedEndpointSkipped ==
    (/\ op = "ApplyChanges"
     /\ Len(Unowned(toCreate(changes))) + Len(Unowned(toDelete(changes))) > 0) =>
        /\ \A k \in CallsOf({"BatchCreateRecord"}) :
              \A i \in 1..Len(calls[k].arg) :
                  OwningCandidates(calls[k].arg[i].src.DNSName) # {}
        /\ Cardinality(CallsOf({"ListRecords"})) <= Len(Owned(toDelete(changes)))
        /\ Cardinality(CallsOf({"BatchDeleteRecord"})) <= Len(Owned(toDelete(changes)))
        /\ (pc = "done" /\ result = "err") => calls[Len(calls)].resp # "ok"
        /\ (pc = "done" /\ \A k \in 1..Len(calls) : calls[k].resp = "ok") =>
              /\ result = "ok"
              /\ Cardinality(CallsOf({"ListRecords"})) = Len(Owned(toDelete(changes)))
              /\ CallsOf({"BatchCreateRecord"}) = {} =>
                    \A i \in 1..Len(Owned(toDelete(changes))) :
                        Remaining(Owned(toDelete(changes))[i]) = <<>>
              /\ \A z \in 1..Len(zones) :
                    LET sent == {k \in CallsOf({"BatchCreateRecord"}) : calls[k].zid = zones[z].ZID}
                    IN  IF ExpectedCreate(zones[z].ZID) = <<>> THEN sent = {}
                        ELSE \A k \in sent : Sent(calls[k]) = ExpectedCreate(zones[z].ZID)

C17_Witness ==
    /\ op = "ApplyChanges" /\ pc = "done" /\ result = "ok"
    /\ changes.Delete = <<EP("x.other.org", "A", <<"1.2.3.4">>, 300),
                          EP("www.example.com", "A", <<"1.2.3.4">>, 300)>>
    /\ Cardinality(CallsOf({"ListRecords"})) = 1
    /\ \E k \in CallsOf({"BatchDeleteRecord"}) : calls[k].zid = 1 /\ calls[k].resp = "ok"
    /\ store[1] = <<>>

\* no stored record of the zone has the host, the type and a target of the
\* endpoint under deletion
NothingToDelete ==
    LET zid == ParseInt(delQueue[1].zone).val
        host == splitDNSName(delQueue[1].ep.DNSName, zoneMap[delQueue[1].zone]).host
    IN  \A i \in 1..Len(store[zid]) :
            ~(/\ store[zid][i].Host = host
              /\ store[zid][i].Type = delQueue[1].ep.RecordType
              /\ CompareValue(store[zid][i]) \in Range(delQueue[1].ep.Targets))

\* C18: when DeletePrivateZoneRecord has listed the zone's records and none
\* matches the host, type and targets, it returns success (the invocation goes
\* on with the next endpoint, or with the creates, or returns ok), it issues
\* no batch-delete call and the stored records are unchanged.
C18_NoMatchIsSuccess ==
    [][(DeleteResolved /\ NothingToDelete) =>
          /\ store' = store
          /\ recordIDs' = <<>>
          /\ pc' \in {"apply_delete_list", "apply_create", "done"}
          /\ pc' = "apply_delete_list" => delQueue' = Tail(delQueue)
          /\ pc' = "done" => result' = "ok"
          /\ \A k \in (Len(calls) + 1)..Len(calls') : calls'[k].api = "ListRecords"]_vars

C18_Witness ==
    /\ op = "ApplyChanges" /\ pc = "done" /\ result = "ok"
    /\ Len(toDelete(changes)) = 1
    /\ Len(calls) = 2
    /\ calls[2].api = "ListRecords"
    /\ store[calls[2].zid] # <<>>
    /\ \E i \in 1..Len(store[calls[2].zid]) :
          /\ store[calls[2].zid][i].Host = "www"
          /\ store[calls[2].zid][i].Type = toDelete(changes)[1].RecordType

\* C19: an endpoint named as its zone is created with host "@" (and only
\* such an endpoint is), its delete resolves records of host "@", and Records
\* turns every stored record of host "@" into an endpoint named as the zone;
\* no endpoint it returns has a name starting with "@.".
C19_ApexHostIsAt ==
    /\ \A k \in CallsOf({"BatchCreateRecord"}) :
          \A i \in 1..Len(calls[k].arg) :
              (calls[k].arg[i].src.DNSName = ZoneNameOf(calls[k].zid))
                  <=> (calls[k].arg[i].Host = "@")
    /\ (pc = "apply_delete_batch" /\ delQueue[1].ep.DNSName = zoneMap[delQueue[1].zone]) =>
          \A i \in 1..Len(store[ParseInt(delQueue[1].zone).val]) :
              store[ParseInt(delQueue[1].zone).val][i].RecordID \in Range(recordIDs)
                  => store[ParseInt(delQueue[1].zone).val][i].Host = "@"
    /\ RecordsReturned =>
          /\ \A z \in 1..Len(zones) :
                \A i \in 1..Len(store[zones[z].ZID]) :
                    store[zones[z].ZID][i].Host = "@" =>
                        \E e \in 1..Len(endpoints) :
                            /\ endpoints[e].DNSName = zones[z].ZoneName
                            /\ endpoints[e].RecordType = store[zones[z].ZID][i].Type
          /\ \A e \in 1..Len(endpoints) : ~HasPrefix(endpoints[e].DNSName, "@")

C19_Witness ==
    /\ RecordsReturned
    /\ \E i \in 1..Len(store[1]) :
          /\ store[1][i].Host = "@"
          /\ origin[store[1][i].RecordID].DNSName = "example.com"
    /\ \E e \in 1..Len(endpoints) : endpoints[e].DNSName = "example.com"

\* C20: for a zone name without trailing dot and a relative host, "@"
\* included, splitting the name getDNSName builds gives back the host and
\* the zone name.
C20_SplitInvertsGetDNSName ==
    (util.fn = "splitDNSName" /\ util.phase = "done") =>
        util.out = [host |-> util.in.host, domain |-> util.in.zoneName]

C20_Witness ==
    /\ util.fn = "splitDNSName" /\ util.phase = "done"
    /\ util.in = [host |-> "example.com", zoneName |-> "example.com"]
    /\ util.out = [host |-> "example.com", domain |-> "example.com"]

\* a name without one trailing dot, cut by character position
StripOneDot(name) ==
    IF Len(name) > 0 /\ SubSeq(name, Len(name), Len(name)) = "."
    THEN SubSeq(name, 1, Len(name) - 1)
    ELSE name

\* the name lies under the zone: it ends with the zone name after a dot
UnderZone(name, zoneName) ==
    /\ Len(name) > Len(zoneName)
    /\ SubSeq(name, Len(name) - Len(zoneName), Len(name)) = "." \o zoneName

\* C21: splitDNSName strips one trailing dot of the name; it returns the zone
\* as domain only when the stripped name is the zone name (host "@") or lies
\* under it on a label boundary (host: what precedes the dot), and returns
\* host "@" with an empty domain in every other case.
C21_SplitOnLabelBoundary ==
    (util.fn = "splitName" /\ util.phase = "done") =>
        LET name == StripOneDot(util.in.dnsName)
            z == util.in.zoneName
        IN  IF name = z THEN util.out = [host |-> "@", domain |-> z]
            ELSE IF UnderZone(name, z)
                 THEN /\ util.out.domain = z
                      /\ util.out.host =
                            (IF Len(name) = Len(z) + 1 THEN "@"
                             ELSE SubSeq(name, 1, Len(name) - Len(z) - 1))
                 ELSE util.out = [host |-> "@", domain |-> ""]

C21_Witness ==
    /\ util.fn = "splitName" /\ util.phase = "done"
    /\ util.in = [dnsName |-> "wwwexample.com", zoneName |-> "example.com"]
    /\ util.out = [host |-> "@", domain |-> ""]

\* C22: escaping a TXT value that has been escaped changes nothing, and an
\* escaped value never begins with the quoted heritage= marker.
C22_EscapeIdempotent ==
    (util.fn = "escapeTXTRecordValue" /\ util.phase = "done") =>
        /\ util.out.twice = util.out.once
        /\ ~HasPrefix(util.out.once, "\"heritage=")

C22_Witness ==
    /\ util.fn = "escapeTXTRecordValue" /\ util.phase = "done"
    /\ util.in.value = "\"heritage=\"heritage=x\"\""
    /\ util.out.once = "heritage=heritage=x"
    /\ util.out.twice = "heritage=heritage=x"

\* C23: cleaning a completed CNAME value gives what cleaning the value
\* gives, for the empty string, the single dot and values ending in dots too.
C23_CleanAfterComplete ==
    (util.fn = "cleanCNAMEValue" /\ util.phase = "done") =>
        util.out.completed = util.out.direct

C23_Witness ==
    /\ util.fn = "cleanCNAMEValue" /\ util.phase = "done"
    /\ util.in.value = "example.com.."
    /\ util.out = [direct |-> "example.com.", completed |-> "example.com."]

\* C24: every request of a batch wrapper carries between 1 and 100 items; the
\* requests are the consecutive slices of the list in input order, so a list
\* longer than 100 goes out in several requests, and when no request fails
\* every item is sent in exactly one request.
C24_RequestsWithinBatchSize ==
    (util.fn = "BatchRequests" /\ util.phase = "done") =>
        LET items == util.in.items
            reqs == util.out
            all == CeilDiv(Len(items), defaultBatchSize)
        IN  /\ \A k \in 1..Len(reqs) :
                  /\ Len(reqs[k]) >= 1
                  /\ Len(reqs[k]) <= 100
                  /\ reqs[k] = SliceOf(items, defaultBatchSize, k)
            /\ Len(reqs) = (IF util.in.failAt \in 1..all THEN util.in.failAt ELSE all)
            /\ util.in.failAt \notin 1..all => Flatten(reqs) = items

C24_Witness ==
    /\ util.fn = "BatchRequests" /\ util.phase = "done"
    /\ Len(util.in.items) = 201
    /\ util.in.failAt = 0
    /\ Len(util.out) = 3
    /\ Len(util.out[1]) = 100 /\ Len(util.out[2]) = 100 /\ util.out[3] = <<201>>

\* the zone map is the map of the zones bound to the VPC now
ZoneMapIsCurrent ==
    /\ DOMAIN zoneMap = {FormatInt(zid) : zid \in ZIDs}
    /\ \A i \in 1..Len(zones) : zoneMap[FormatInt(zones[i].ZID)] = zones[i].ZoneName

\* C25: every Records and every ApplyChanges invocation begins by listing the
\* zones, and acts on the zones bound to the VPC at that time only: the zone
\* map of ApplyChanges is the map of the current zones, Records reads each
\* current zone once, and no call goes to a zone unbound before the invocation.
C25_ZonesListedAfresh ==
    (op \in {"ApplyChanges", "Records"} /\ pc # "idle") =>
        /\ Len(calls) >= 1
        /\ calls[1].api = "ListPrivateZones"
        /\ \A k \in 2..Len(calls) :
              calls[k].api # "ListPrivateZones" /\ calls[k].zid \in ZIDs
        /\ (op = "ApplyChanges" /\ calls[1].resp = "ok") => ZoneMapIsCurrent
        /\ (op = "Records" /\ pc = "records_list") =>
              recZones = SubSeq(zones, Len(zones) - Len(recZones) + 1, Len(zones))
        /\ RecordsReturned =>
              [k \in 1..(Len(calls) - 1) |-> calls[k + 1].zid] = [i \in 1..Len(zones) |-> zones[i].ZID]

C25_Witness ==
    /\ op = "ApplyChanges" /\ pc = "done" /\ result = "ok"
    /\ ops = 2
    /\ zones = <<InitZones[1]>>
    /\ store[2] # <<>>
    /\ \E k \in CallsOf({"BatchCreateRecord"}) :
          /\ calls[k].zid = 1
          /\ calls[k].arg[1].src.DNSName = "a.b.example.com"
          /\ calls[k].arg[1].Host = "a.b"

\* the (host, type, value) triples of a sequence of records
Triples(records) ==
    {[Host |-> records[i].Host, Type |-> records[i].Type, Value |-> records[i].Value] :
        i \in 1..Len(records)}

\* what zone example.com holds after a successful ApplyChanges(c) run alone
\* on the contents S: the records matching a delete endpoint are gone, the
\* records of the create endpoints are added
After(c, S) ==
    LET gone == {t \in S : \E i \in 1..Len(toDelete(c)) :
                    /\ t.Host = splitDNSName(toDelete(c)[i].DNSName, "example.com").host
                    /\ t.Type = toDelete(c)[i].RecordType
                    /\ t.Value \in Range(toDelete(c)[i].Targets)}
        added == UNION {{[Host |-> splitDNSName(toCreate(c)[i].DNSName, "example.com").host,
                          Type |-> toCreate(c)[i].RecordType,
                          Value |-> toCreate(c)[i].Targets[j]] :
                            j \in 1..Len(toCreate(c)[i].Targets)} :
                        i \in 1..Len(toCreate(c))}
    IN  (S \ gone) \cup added

\* the contents the two invocations leave when run one after the other
SerialOutcomes ==
    {After(conc.parked.changes, After(changes, Triples(ConcRecords))),
     After(changes, After(conc.parked.changes, Triples(ConcRecords)))}

\* both invocations have returned without error
BothReturnedOk ==
    /\ op = "ApplyChanges" /\ pc = "done" /\ result = "ok"
    /\ conc.parked.op = "ApplyChanges" /\ conc.parked.pc = "done"
    /\ conc.parked.result = "ok"

\* C26: nothing excludes a second ApplyChanges while one is under way: at
\* every point of an invocation, between any two of its remote calls, the
\* other invocation can take the next step.  Two invocations that succeed
\* without having overlapped leave the contents of a serial order.
C26_NoLockBetweenRemoteCalls ==
    /\ (conc.switches < MaxSwitches /\ pc \notin {"idle", "done"}) => ENABLED Switch
    /\ (BothReturnedOk /\ ~conc.overlapped) => Triples(store[1]) \in SerialOutcomes

\* two overlapping invocations have succeeded and the zone holds what neither
\* serial order leaves: one replaced 1.1.1.1, 1.1.1.2 by 1.1.1.3, the other
\* 1.1.1.3 by 1.1.1.1, 1.1.1.2, and all three values are stored
C26_Witness ==
    /\ BothReturnedOk
    /\ conc.overlapped
    /\ Len(changes.UpdateOld) = 1 /\ Len(conc.parked.changes.UpdateOld) = 1
    /\ Triples(store[1]) \notin SerialOutcomes
    /\ {store[1][i].Value : i \in 1..Len(store[1])} = {"1.1.1.1", "1.1.1.2", "1.1.1.3"}

\* the number of endpoints the first n zones give: one per (type, host) group
RECURSIVE GroupCount(_)
GroupCount(n) ==
    IF n = 0 THEN 0
    ELSE GroupCount(n - 1) + Cardinality(GroupKeys(store[zones[n].ZID]))

\* C27: with no zone bound to the VPC, Records returns no endpoint and no
\* error after the listing of the zones alone; otherwise it reads every zone,
\* a zone without records included, and returns the endpoints of the zones
\* that hold records: none is named under a zone that holds none.
C27_EmptyZonesAndEmptyZone ==
    /\ (op = "Records" /\ pc = "done" /\ zones = <<>> /\ calls[1].resp = "ok") =>
          /\ result = "ok"
          /\ endpoints = <<>>
          /\ Len(calls) = 1
    /\ RecordsReturned =>
          /\ \A i \in 1..Len(zones) :
                \E k \in CallsOf({"ListRecords"}) : calls[k].zid = zones[i].ZID
          /\ Len(endpoints) = GroupCount(Len(zones))
          /\ \A e \in 1..Len(endpoints) :
                \E i \in 1..Len(zones) :
                    /\ store[zones[i].ZID] # <<>>
                    /\ \E j \in 1..Len(store[zones[i].ZID]) :
                          endpoints[e].DNSName =
                              getDNSName(store[zones[i].ZID][j].Host, zones[i].ZoneName)

C27_Witness ==
    /\ op = "Records" /\ pc = "done" /\ result = "ok"
    /\ zones = <<>>
    /\ store[1] # <<>>
    /\ endpoints = <<>>
    /\ Len(calls) = 1

\* a string has no double quote
NoQuote(v) == \A i \in 1..Len(v) : SubSeq(v, i, i) # "\""

\* C28: in every batch-create call, the value sent for a TXT target that
\* begins with the quoted heritage= marker is the target without its double
\* quotes, and the value sent for any other target is the target itself: a
\* CNAME target without a trailing dot is sent without one.
C28_CreateSendsEscapedTXTOnly ==
    \A k \in CallsOf({"BatchCreateRecord"}) :
        \A i \in 1..Len(calls[k].arg) :
            LET rec == calls[k].arg[i]
            IN  IF rec.Type = "TXT" /\ HasPrefix(rec.src.Target, "\"heritage=")
                THEN /\ NoQuote(rec.Value)
                     /\ rec.Value = RemoveAll(rec.src.Target, "\"")
                ELSE rec.Value = rec.src.Target

C28_Witness ==
    /\ op = "ApplyChanges"
    /\ \E k \in CallsOf({"BatchCreateRecord"}) :
          /\ Len(calls[k].arg) = 2
          /\ calls[k].arg[1].Type = "CNAME"
          /\ calls[k].arg[1].src.Target = "t.io" /\ calls[k].arg[1].Value = "t.io"
          /\ calls[k].arg[2].src.Target = "t.io." /\ calls[k].arg[2].Value = "t.io."

\* the stored records that a create of the endpoint added
CreatedFrom(ep) ==
    {r \in UNION {Range(store[zid]) : zid \in DOMAIN store} :
        /\ r.RecordID \in DOMAIN origin
        /\ origin[r.RecordID].DNSName = ep.DNSName
        /\ origin[r.RecordID].RecordType = ep.RecordType
        /\ origin[r.RecordID].Target \in Range(ep.Targets)}

\* C29: after an ApplyChanges that only deletes has succeeded, no record
\* that an earlier ApplyChanges created from a deleted endpoint (same name,
\* type and targets) is left in its zone, whatever the type and the form of
\* the targets.
C29_CreateThenDeleteRestores ==
    (/\ op = "ApplyChanges" /\ pc = "done" /\ result = "ok"
     /\ toCreate(changes) = <<>>) =>
        \A i \in 1..Len(Owned(toDelete(changes))) :
            CreatedFrom(Owned(toDelete(changes))[i]) = {}

\* the stored records of the zone, host and type an endpoint is written to
StoredFor(ep) ==
    {r \in Range(store[OwnerZID(ep.DNSName)]) :
        /\ r.Host = splitDNSName(ep.DNSName, ZoneNameOf(OwnerZID(ep.DNSName))).host
        /\ r.Type = ep.RecordType}

\* C30: after a successful ApplyChanges of one update, whose zone held for
\* the host and type only records created from the UpdateOld endpoint, the
\* records stored for the host and type are those of the targets of
\* UpdateNew, and none is left of a target that only UpdateOld has.
C30_UpdateReplacesTargets ==
    (/\ op = "ApplyChanges" /\ pc = "done" /\ result = "ok"
     /\ Len(changes.UpdateOld) = 1 /\ Len(changes.Create) = 0 /\ Len(changes.Delete) = 0
     /\ OwningCandidates(changes.UpdateNew[1].DNSName) # {}
     /\ \A r \in StoredFor(changes.UpdateNew[1]) :
           /\ r.RecordID \in DOMAIN origin
           /\ origin[r.RecordID].Target \in
                 Range(changes.UpdateOld[1].Targets) \cup Range(changes.UpdateNew[1].Targets)) =>
        /\ {origin[r.RecordID].Target : r \in StoredFor(changes.UpdateNew[1])}
              = Range(changes.UpdateNew[1].Targets)
        /\ Cardinality(StoredFor(changes.UpdateNew[1])) = Len(changes.UpdateNew[1].Targets)

====
